---- MODULE Spec2Model ----
(***************************************************************************)
(* ARM64 compatibility resolution for Python packages.                     *)
(*                                                                         *)
(* The model follows three modules of the dependency analyzer:             *)
(*   pypi_api.py                     check_pypi_package_arm_compatibility  *)
(*   wheel_test_api.py               get_latest_wheel_tester_results       *)
(*   python_package_compatibility.py check_python_package_compatibility    *)
(*                                                                         *)
(* Strings are modelled as sequences of string tokens.  A package name is  *)
(* a sequence of one-character tokens, a version constraint is a sequence  *)
(* of operator / version / "," tokens, and a reason text is a sequence of  *)
(* message tokens in which every full stop is a token "." of its own, so   *)
(* that rstrip(".") and concatenation keep their meaning.  Python's True,  *)
(* False, "partial" and "unknown" are the strings "True", "False",         *)
(* "partial" and "unknown"; None is the empty sequence where a sequence    *)
(* is expected and the string "None" where a string is expected.           *)
(***************************************************************************)
EXTENDS Integers, Sequences, FiniteSets, TLC

\* ------------------------------------------------------------------------
\* Bounds of the model
\* ------------------------------------------------------------------------

\* Number of calls one process makes (length of the manifest).
MaxManifest == 2

\* Number of published versions of a package in the registry document.
MaxVersions == 4

\* Number of release files of the inspected version.
MaxFiles == 2

\* Number of comma-separated clauses in a version constraint.
MaxClauses == 2

\* Upper bound on the artifacts of the workflow run.
MaxArtifacts == 2

\* Upper bound on the characters of a raw package name.
MaxName == 3

\* Number of threads that call get_latest_wheel_tester_results together.
MaxCallers == 2

\* ------------------------------------------------------------------------
\* Generic helpers
\* ------------------------------------------------------------------------

Min(a, b) == IF a < b THEN a ELSE b

Range(s) == {s[i] : i \in 1..Len(s)}

\* Python's  sep.join(seq)  on token sequences.
RECURSIVE Join(_, _)
Join(seqs, sep) ==
  IF seqs = <<>> THEN <<>>
  ELSE IF Len(seqs) = 1 THEN seqs[1]
  ELSE seqs[1] \o sep \o Join(Tail(seqs), sep)

\* Python's  s.rstrip(".")  : every trailing full stop is removed.
RECURSIVE RStripDot(_)
RStripDot(s) ==
  IF s # <<>> /\ s[Len(s)] = "." THEN RStripDot(SubSeq(s, 1, Len(s) - 1)) ELSE s

\* Python's  lst[-n:]
LastN(s, n) == IF Len(s) <= n THEN s ELSE SubSeq(s, Len(s) - n + 1, Len(s))

\* ------------------------------------------------------------------------
\* Package names
\* ------------------------------------------------------------------------

IsSeparator(c) == c \in {"-", "_", "."}

\* str.lower() on one character.
LowerChar(c) == IF c = "A" THEN "a" ELSE IF c = "B" THEN "b" ELSE c

Lower(name) == [i \in 1..Len(name) |-> LowerChar(name[i])]

\* packaging.utils.canonicalize_name: re.sub(r"[-_.]+", "-", name).lower()
RECURSIVE CollapseSeparators(_)
CollapseSeparators(name) ==
  IF name = <<>> THEN <<>>
  ELSE IF IsSeparator(name[1])
       THEN IF Len(name) > 1 /\ IsSeparator(name[2])
            THEN CollapseSeparators(Tail(name))
            ELSE <<"-">> \o CollapseSeparators(Tail(name))
       ELSE <<name[1]>> \o CollapseSeparators(Tail(name))

canonicalize_name(name) == Lower(CollapseSeparators(name))

\* package_name.lower().replace("_", "-")
clean_name(name) ==
  [i \in 1..Len(name) |-> IF LowerChar(name[i]) = "_" THEN "-" ELSE LowerChar(name[i])]

\* ------------------------------------------------------------------------
\* Versions (packaging.version)
\* ------------------------------------------------------------------------

\* The version strings a registry document of the model may publish.
VersionStrings ==
  <<"1.0", "1.0.0", "1.1.0", "1.2.0", "1.2.0-rc1", "2.0.0rc1", "2.0.0", "not-a-version">>

\* A parsed Version: the release segment as written and the pre-release
\* number (0: a final release, n > 0: release candidate n).
NoVersion == [ok |-> FALSE, rel |-> <<>>, pre |-> 0]

MkVersion(rel, pre) == [ok |-> TRUE, rel |-> rel, pre |-> pre]

\* packaging.version.parse; ok = FALSE stands for InvalidVersion.
parse_version(s) ==
  CASE s = "1.0"       -> MkVersion(<<1, 0>>, 0)
    [] s = "1.0.0"     -> MkVersion(<<1, 0, 0>>, 0)
    [] s = "1.1.0"     -> MkVersion(<<1, 1, 0>>, 0)
    [] s = "1.2.0"     -> MkVersion(<<1, 2, 0>>, 0)
    [] s = "1.2.0-rc1" -> MkVersion(<<1, 2, 0>>, 1)
    [] s = "1.2.0rc1"  -> MkVersion(<<1, 2, 0>>, 1)
    [] s = "2.0.0rc1"  -> MkVersion(<<2, 0, 0>>, 1)
    [] s = "2.0.0"     -> MkVersion(<<2, 0, 0>>, 0)
    [] OTHER           -> NoVersion

\* str(Version): the normalized spelling.
VersionStr(v) ==
  CASE v.rel = <<1, 0>>                   -> "1.0"
    [] v.rel = <<1, 0, 0>>                -> "1.0.0"
    [] v.rel = <<1, 1, 0>>                -> "1.1.0"
    [] v.rel = <<1, 2, 0>> /\ v.pre = 0   -> "1.2.0"
    [] v.rel = <<1, 2, 0>> /\ v.pre # 0   -> "1.2.0rc1"
    [] v.rel = <<2, 0, 0>> /\ v.pre = 0   -> "2.0.0"
    [] v.rel = <<2, 0, 0>> /\ v.pre # 0   -> "2.0.0rc1"
    [] OTHER                              -> "?"

\* Release segments compare component by component, the shorter one padded
\* with zeros.
RelAt(rel, i) == IF i <= Len(rel) THEN rel[i] ELSE 0

RECURSIVE RelCmpFrom(_, _, _)
RelCmpFrom(a, b, i) ==
  IF i > Len(a) /\ i > Len(b) THEN 0
  ELSE IF RelAt(a, i) < RelAt(b, i) THEN -1
  ELSE IF RelAt(a, i) > RelAt(b, i) THEN 1
  ELSE RelCmpFrom(a, b, i + 1)

RelCmp(a, b) == RelCmpFrom(a, b, 1)

\* Version ordering: by release, a pre-release before its final release.
VersionCmp(a, b) ==
  LET r == RelCmp(a.rel, b.rel) IN
  IF r # 0 THEN r
  ELSE IF a.pre = b.pre THEN 0
  ELSE IF a.pre = 0 THEN 1
  ELSE IF b.pre = 0 THEN -1
  ELSE IF a.pre < b.pre THEN -1 ELSE 1

IsPrerelease(v) == v.pre # 0

\* Python's max(): the first of the greatest elements.
RECURSIVE MaxVersionFrom(_, _, _)
MaxVersionFrom(vs, i, best) ==
  IF i > Len(vs) THEN best
  ELSE MaxVersionFrom(vs, i + 1, IF VersionCmp(vs[i], best) > 0 THEN vs[i] ELSE best)

MaxVersion(vs) == MaxVersionFrom(vs, 2, vs[1])

\* ------------------------------------------------------------------------
\* Version constraints (packaging.specifiers)
\* ------------------------------------------------------------------------

ComparisonOps == {"==", "!=", ">=", "<=", ">", "<"}

\* "a,b,c".split(","): the clauses of a constraint, each a token sequence.
RECURSIVE SplitComma(_, _)
SplitComma(toks, cur) ==
  IF toks = <<>> THEN <<cur>>
  ELSE IF toks[1] = "," THEN <<cur>> \o SplitComma(Tail(toks), <<>>)
  ELSE SplitComma(Tail(toks), Append(cur, toks[1]))

\* SpecifierSet drops empty clauses.
Clauses(spec) == SelectSeq(SplitComma(spec, <<>>), LAMBDA c : c # <<>>)

ValidClause(c) ==
  /\ Len(c) = 2
  /\ c[1] \in ComparisonOps
  /\ parse_version(c[2]).ok

\* SpecifierSet(spec) raises InvalidSpecifier unless every clause parses.
ValidSpecifier(spec) == \A i \in 1..Len(Clauses(spec)) : ValidClause(Clauses(spec)[i])

\* Specifier.contains(v, prereleases=True) for one clause.  "<" does not
\* admit a pre-release of the version it names unless that version is a
\* pre-release itself (PEP 440 exclusive ordered comparison).
ClauseContains(c, v) ==
  LET op  == c[1]
      sv  == parse_version(c[2])
      cmp == VersionCmp(v, sv)
  IN CASE op = "==" -> cmp = 0
       [] op = "!=" -> cmp # 0
       [] op = ">=" -> cmp >= 0
       [] op = "<=" -> cmp <= 0
       [] op = ">"  -> cmp > 0
       [] op = "<"  -> /\ cmp < 0
                       /\ ~(~IsPrerelease(sv) /\ IsPrerelease(v) /\ RelCmp(v.rel, sv.rel) = 0)
       [] OTHER     -> FALSE

\* SpecifierSet.filter(candidates, prereleases=True): the candidates pass
\* through the clauses one after the other, in their order.
RECURSIVE FilterBy(_, _)
FilterBy(clauses, vs) ==
  IF clauses = <<>> THEN vs
  ELSE FilterBy(Tail(clauses), SelectSeq(vs, LAMBDA v : ClauseContains(clauses[1], v)))

\* Variant: the filter with the library's default, which drops pre-releases.
SpecifierFilter_stable_only(spec, vs) ==
  FilterBy(Clauses(spec), SelectSeq(vs, LAMBDA v : ~IsPrerelease(v)))

SpecifierFilter(spec, vs) == FilterBy(Clauses(spec), vs)

\* ------------------------------------------------------------------------
\* Release files and their classification (pypi_api.py, step 6)
\* ------------------------------------------------------------------------

\* A file name is kept as the number of "-"-separated fields, whether the
\* last field contains ".whl", and the tokens of the last field in front of
\* ".whl" (the platform tag, e.g. manylinux_2_17_aarch64).
MkFilename(fields, whl, tags) == [fields |-> fields, whl |-> whl, tags |-> tags]

\* yanked_reason: <<>> the key is absent, <<"None">> JSON null, <<text>>.
MkFile(filename, packagetype, yanked, yanked_reason) ==
  [filename |-> filename, packagetype |-> packagetype,
   yanked |-> yanked, yanked_reason |-> yanked_reason]

\* The identifiers that occur as substrings of one token of a platform tag.
SubstringsOf(tok) ==
  CASE tok = "aarch64"    -> {"aarch64"}
    [] tok = "arm64"      -> {"arm64"}
    [] tok = "x86_64"     -> {"x86_64"}
    [] tok = "win_amd64"  -> {"win_amd64", "amd64", "win"}
    [] tok = "win32"      -> {"win"}
    [] tok = "any"        -> {"any"}
    [] tok = "universal2" -> {"universal2"}
    [] tok = "macosx"     -> {"macosx"}
    [] tok = "manylinux"  -> {"any", "linux"}
    [] OTHER              -> {}

\* Python's  ident in wheel_tags
TagHas(tags, ident) == \E tok \in tags : ident \in SubstringsOf(tok)

TagHasAny(tags, idents) == \E ident \in idents : TagHas(tags, ident)

ARM_IDS == {"aarch64", "arm64"}
X86_IDS == {"win_amd64", "amd64", "x86_64", "x64"}
UNIVERSAL_IDS == {"any", "universal2"}
OS_IDS == {"win", "linux", "macosx"}

\* Variant: the x86 identifiers are looked for before the ARM ones.
WheelClass_x86_first(filename) ==
  LET nparts == Min(filename.fields, 4)
      tags   == filename.tags
  IN IF nparts >= 3 /\ filename.whl
     THEN IF TagHasAny(tags, X86_IDS) THEN "other_arch"
          ELSE IF TagHasAny(tags, ARM_IDS) THEN "arm"
          ELSE IF TagHasAny(tags, UNIVERSAL_IDS)
               THEN IF TagHas(tags, "universal2") /\ TagHas(tags, "macosx") THEN "arm"
                    ELSE IF TagHas(tags, "any") /\ ~TagHasAny(tags, OS_IDS) THEN "universal"
                    ELSE "none"
               ELSE "none"
     ELSE "none"

\* The list a wheel file name is appended to: "arm", "other_arch",
\* "universal" or "none".
WheelClass(filename) ==
  LET nparts == Min(filename.fields, 4)      \* filename.rsplit("-", 3)
      tags   == filename.tags                \* parts[-1].split(".whl")[0]
  IN IF nparts >= 3 /\ filename.whl
     THEN IF TagHasAny(tags, ARM_IDS) THEN "arm"
          ELSE IF TagHasAny(tags, X86_IDS) THEN "other_arch"
          ELSE IF TagHasAny(tags, UNIVERSAL_IDS)
               THEN IF TagHas(tags, "universal2") /\ TagHas(tags, "macosx") THEN "arm"
                    ELSE IF TagHas(tags, "any") /\ ~TagHasAny(tags, OS_IDS) THEN "universal"
                    ELSE "none"
               ELSE "none"
     ELSE "none"

\* One iteration of the loop over release_files.
FileClass(f) ==
  IF f.yanked THEN "none"
  ELSE IF f.packagetype = "bdist_wheel" THEN WheelClass(f.filename)
  ELSE IF f.packagetype = "sdist" THEN "sdist"
  ELSE "none"

FilenamesOf(files) == [i \in 1..Len(files) |-> files[i].filename]

arm_wheels(files) == FilenamesOf(SelectSeq(files, LAMBDA f : FileClass(f) = "arm"))
universal_wheels(files) == FilenamesOf(SelectSeq(files, LAMBDA f : FileClass(f) = "universal"))
sdist_files(files) == FilenamesOf(SelectSeq(files, LAMBDA f : FileClass(f) = "sdist"))
other_arch_wheels(files) == FilenamesOf(SelectSeq(files, LAMBDA f : FileClass(f) = "other_arch"))

\* ------------------------------------------------------------------------
\* Yanked status of the target version (pypi_api.py, step 5)
\* ------------------------------------------------------------------------

IsYanked(files) == \E i \in 1..Len(files) : files[i].yanked

\* dict.get("yanked_reason") of the first file; None when there is no file.
FirstFileReason(files) ==
  IF files = <<>> \/ files[1].yanked_reason = <<>> THEN "None" ELSE files[1].yanked_reason[1]

Falsy(str) == str \in {"None", ""}

\* The reason of the first yanked file, "No reason provided" without the key.
FirstYankedReason(files) ==
  LET ys == SelectSeq(files, LAMBDA f : f.yanked) IN
  IF ys = <<>> THEN "None"
  ELSE IF ys[1].yanked_reason = <<>> THEN "No reason provided"
  ELSE ys[1].yanked_reason[1]

YankedReason(files) ==
  IF IsYanked(files) /\ Falsy(FirstFileReason(files))
  THEN FirstYankedReason(files)
  ELSE FirstFileReason(files)

\* ------------------------------------------------------------------------
\* Verdict of the registry for one version (pypi_api.py, step 7)
\* ------------------------------------------------------------------------

\* "Programming Language :: C" in c  holds for C, C++ and Cython classifiers.
has_c_extension(classifiers) == classifiers \cap {"C", "C++", "Cython"} # {}

has_cython(classifiers) == "Cython" \in classifiers

is_platform_specific(platform) == platform \notin {"None", "", "any"}

MkResult(compatible, reason, checked_version, warning) ==
  [compatible |-> compatible, reason |-> reason,
   checked_version |-> checked_version, warning |-> warning]

YankWarning(files, v) ==
  IF IsYanked(files)
  THEN <<"Version ", v, " has been yanked: ", YankedReason(files)>>
  ELSE <<>>

\* Variant: a yanked version is "unknown" whatever its other files are.
Decide_yanked_is_unknown(files, info, v) ==
  IF IsYanked(files)
  THEN [compatible |-> "unknown",
        reason |-> <<"No non-yanked wheels or source distribution found for version ",
                     v, " on PyPI", ".">>]
  ELSE IF arm_wheels(files) # <<>>
  THEN [compatible |-> "True",
        reason |-> <<"ARM-specific wheels found for version ", v, ".">>]
  ELSE IF universal_wheels(files) # <<>>
  THEN [compatible |-> "True",
        reason |-> <<"Platform-agnostic wheels ('any') found for version ", v, ".">>]
  ELSE IF sdist_files(files) # <<>>
  THEN IF \/ has_c_extension(info.classifiers)
          \/ has_cython(info.classifiers)
          \/ is_platform_specific(info.platform)
       THEN [compatible |-> "partial",
             reason |-> <<"Source distribution found for ", v,
                          ", but it may require compilation on ARM64 (contains C/C++/Cython or platform markers: '",
                          info.platform, "')", ".">>]
       ELSE [compatible |-> "True",
             reason |-> <<"Likely pure Python source distribution found for ", v, ".">>]
  ELSE IF other_arch_wheels(files) # <<>>
  THEN [compatible |-> "False",
        reason |-> <<"Only non-ARM wheels (e.g., x86_64) found for non-yanked files of version ",
                     v, ".">>]
  ELSE [compatible |-> "False",
        reason |-> <<"No non-yanked wheels or source distribution found for version ",
                     v, " on PyPI", ".">>]

\* Variant: a source distribution is looked at before the universal wheels.
Decide_sdist_before_universal(files, info, v) ==
  IF arm_wheels(files) # <<>>
  THEN [compatible |-> "True",
        reason |-> <<"ARM-specific wheels found for version ", v, ".">>]
  ELSE IF sdist_files(files) # <<>>
  THEN IF \/ has_c_extension(info.classifiers)
          \/ has_cython(info.classifiers)
          \/ is_platform_specific(info.platform)
       THEN [compatible |-> "partial",
             reason |-> <<"Source distribution found for ", v,
                          ", but it may require compilation on ARM64 (contains C/C++/Cython or platform markers: '",
                          info.platform, "')", ".">>]
       ELSE [compatible |-> "True",
             reason |-> <<"Likely pure Python source distribution found for ", v, ".">>]
  ELSE IF universal_wheels(files) # <<>>
  THEN [compatible |-> "True",
        reason |-> <<"Platform-agnostic wheels ('any') found for version ", v, ".">>]
  ELSE IF other_arch_wheels(files) # <<>>
  THEN [compatible |-> "False",
        reason |-> <<"Only non-ARM wheels (e.g., x86_64) found for non-yanked files of version ",
                     v, ".">>]
  ELSE [compatible |-> IF ~IsYanked(files) THEN "False" ELSE "unknown",
        reason |-> <<"No non-yanked wheels or source distribution found for version ",
                     v, " on PyPI", ".">>]

Decide(files, info, v) ==
  IF arm_wheels(files) # <<>>
  THEN [compatible |-> "True",
        reason |-> <<"ARM-specific wheels found for version ", v, ".">>]
  ELSE IF universal_wheels(files) # <<>>
  THEN [compatible |-> "True",
        reason |-> <<"Platform-agnostic wheels ('any') found for version ", v, ".">>]
  ELSE IF sdist_files(files) # <<>>
  THEN IF \/ has_c_extension(info.classifiers)
          \/ has_cython(info.classifiers)
          \/ is_platform_specific(info.platform)
       THEN [compatible |-> "partial",
             reason |-> <<"Source distribution found for ", v,
                          ", but it may require compilation on ARM64 (contains C/C++/Cython or platform markers: '",
                          info.platform, "')", ".">>]
       ELSE [compatible |-> "True",
             reason |-> <<"Likely pure Python source distribution found for ", v, ".">>]
  ELSE IF other_arch_wheels(files) # <<>>
  THEN [compatible |-> "False",
        reason |-> <<"Only non-ARM wheels (e.g., x86_64) found for non-yanked files of version ",
                     v, ".">>]
  ELSE [compatible |-> IF ~IsYanked(files) THEN "False" ELSE "unknown",
        reason |-> <<"No non-yanked wheels or source distribution found for version ",
                     v, " on PyPI", ".">>]

\* Steps 5 to 7 for a target version that is a key of releases.
InspectVersion(doc, v) ==
  LET files == doc.files[v]
      d     == Decide(files, doc.info, v)
  IN MkResult(d.compatible, d.reason, v, YankWarning(files, v))

\* ------------------------------------------------------------------------
\* check_pypi_package_arm_compatibility (pypi_api.py)
\* ------------------------------------------------------------------------

\* What one GET of https://pypi.org/pypi/<name>/json can end in:
\*   "ok"            the registry answers: 200 with the package document,
\*                   or 404 when it has no such package
\*   "http_error"    a status other than 200 and 404
\*   "network_error" requests raises a RequestException (a timeout included)
\*   "bad_json"      response.json() raises (requests' JSONDecodeError is a
\*                   RequestException)
\*   "bad_shape"     the body parses but is not a package document, so that
\*                   some other exception is raised while it is read
Transport == {"ok", "http_error", "network_error", "bad_json", "bad_shape"}

\* cache_key: the canonical name with the specifier, the specifier being
\* <<>> when none (None or "") was given.
CacheKey(package_name, spec) == [name |-> canonicalize_name(package_name), spec |-> spec]

Published(reg, normalized_name) ==
  normalized_name \in DOMAIN reg /\ reg[normalized_name] # <<>>

\* Variant: one version string that does not parse discards all candidates.
CandidateVersions_abort(available) ==
  IF \E i \in 1..Len(available) : ~parse_version(available[i]).ok
  THEN <<>>
  ELSE [i \in 1..Len(available) |-> parse_version(available[i])]

\* The versions of the releases mapping that parse, in the mapping's order.
CandidateVersions(available) ==
  SelectSeq([i \in 1..Len(available) |-> parse_version(available[i])], LAMBDA v : v.ok)

allowed_versions(spec, available) == SpecifierFilter(spec, CandidateVersions(available))

\* Variant: the first allowed version instead of the greatest.
SelectTarget_first(allowed) == VersionStr(allowed[1])

\* str(max(allowed_versions))
SelectTarget(allowed) == VersionStr(MaxVersion(allowed))

\* Variant: a package the registry does not have is reported incompatible.
result_not_found_incompatible(normalized_name) ==
  MkResult("False", <<"Package '">> \o normalized_name \o <<"' not found on PyPI", ".">>,
           "None", <<>>)

result_not_found(normalized_name) ==
  MkResult("unknown", <<"Package '">> \o normalized_name \o <<"' not found on PyPI", ".">>,
           "None", <<>>)

result_http_error(normalized_name) ==
  MkResult("unknown", <<"PyPI API error for '">> \o normalized_name \o <<"': HTTP ", "500">>,
           "None", <<>>)

result_invalid_spec(spec) ==
  MkResult("unknown", <<"Invalid version specifier: '">> \o spec \o <<"'">>, "None", <<>>)

result_no_satisfy(spec, available) ==
  MkResult("unknown",
           <<"No version found satisfying '">> \o spec \o <<"'", ".", " Latest available: ">>
             \o Join([i \in 1..Len(LastN(available, 5)) |-> <<LastN(available, 5)[i]>>], <<", ">>)
             \o <<".", ".", ".">>,
           "None", <<>>)

result_no_latest ==
  MkResult("unknown", <<"Could not determine latest version from PyPI info", ".">>, "None", <<>>)

result_missing_details(target) ==
  MkResult("unknown", <<"Internal error: Target version ", target, " details missing", ".">>,
           target, <<>>)

result_network_error ==
  MkResult("unknown", <<"Network error checking PyPI: ", "<exception>">>, "None", <<>>)

result_unexpected_error ==
  MkResult("unknown", <<"Unexpected error during compatibility check: ", "<exception>">>,
           "None", <<>>)

\* Steps 5 to 7: the target version must be a key of releases.
AnalyzeTarget(data, target) ==
  IF target \notin Range(data.versions)
  THEN [result |-> result_missing_details(target), store |-> FALSE]
  ELSE [result |-> InspectVersion(data, target), store |-> TRUE]

\* Variant: without a constraint the greatest published version is taken.
ResolveAndInspect_latest_is_greatest(data, spec) ==
  IF spec # <<>>
  THEN IF ~ValidSpecifier(spec)
       THEN [result |-> result_invalid_spec(spec), store |-> TRUE]
       ELSE IF allowed_versions(spec, data.versions) # <<>>
            THEN AnalyzeTarget(data, SelectTarget(allowed_versions(spec, data.versions)))
            ELSE [result |-> result_no_satisfy(spec, data.versions), store |-> TRUE]
  ELSE IF CandidateVersions(data.versions) = <<>>
       THEN [result |-> result_no_latest, store |-> FALSE]
       ELSE AnalyzeTarget(data, SelectTarget(CandidateVersions(data.versions)))

\* Variant: a constraint that does not parse is treated as no constraint.
ResolveAndInspect_ignores_invalid_spec(data, spec) ==
  IF spec # <<>> /\ ValidSpecifier(spec)
  THEN IF allowed_versions(spec, data.versions) # <<>>
       THEN AnalyzeTarget(data, SelectTarget(allowed_versions(spec, data.versions)))
       ELSE [result |-> result_no_satisfy(spec, data.versions), store |-> TRUE]
  ELSE IF data.info.version = ""
       THEN [result |-> result_no_latest, store |-> FALSE]
       ELSE AnalyzeTarget(data, data.info.version)

\* Step 4 and on, for a document that was fetched with status 200.
ResolveAndInspect(data, spec) ==
  IF spec # <<>>
  THEN IF ~ValidSpecifier(spec)
       THEN [result |-> result_invalid_spec(spec), store |-> TRUE]
       ELSE IF allowed_versions(spec, data.versions) # <<>>
            THEN AnalyzeTarget(data, SelectTarget(allowed_versions(spec, data.versions)))
            ELSE [result |-> result_no_satisfy(spec, data.versions), store |-> TRUE]
  ELSE IF data.info.version = ""
       THEN [result |-> result_no_latest, store |-> FALSE]
       ELSE AnalyzeTarget(data, data.info.version)

\* Variant: the result for a package the registry does not have is not stored.
FetchAndCheck_forgets_not_found(normalized_name, spec, reg, transport) ==
  IF transport = "network_error"
  THEN [result |-> result_network_error, store |-> FALSE]
  ELSE IF transport = "http_error"
  THEN [result |-> result_http_error(normalized_name), store |-> FALSE]
  ELSE IF ~Published(reg, normalized_name)
  THEN [result |-> result_not_found(normalized_name), store |-> FALSE]
  ELSE IF transport = "bad_json"
  THEN [result |-> result_network_error, store |-> FALSE]
  ELSE IF transport = "bad_shape"
  THEN [result |-> result_unexpected_error, store |-> FALSE]
  ELSE ResolveAndInspect(reg[normalized_name][1], spec)

\* Variant: every result is stored, those of failed requests too.
FetchAndCheck_stores_errors(normalized_name, spec, reg, transport) ==
  IF transport = "network_error"
  THEN [result |-> result_network_error, store |-> TRUE]
  ELSE IF transport = "http_error"
  THEN [result |-> result_http_error(normalized_name), store |-> TRUE]
  ELSE IF ~Published(reg, normalized_name)
  THEN [result |-> result_not_found(normalized_name), store |-> TRUE]
  ELSE IF transport = "bad_json"
  THEN [result |-> result_network_error, store |-> TRUE]
  ELSE IF transport = "bad_shape"
  THEN [result |-> result_unexpected_error, store |-> TRUE]
  ELSE ResolveAndInspect(reg[normalized_name][1], spec)

\* The body of the function after a cache miss: the result and whether it
\* is stored in PYPI_CACHE.
FetchAndCheck(normalized_name, spec, reg, transport) ==
  IF transport = "network_error"
  THEN [result |-> result_network_error, store |-> FALSE]
  ELSE IF transport = "http_error"
  THEN [result |-> result_http_error(normalized_name), store |-> FALSE]
  ELSE IF ~Published(reg, normalized_name)
  THEN [result |-> result_not_found(normalized_name), store |-> TRUE]
  ELSE IF transport = "bad_json"
  THEN [result |-> result_network_error, store |-> FALSE]
  ELSE IF transport = "bad_shape"
  THEN [result |-> result_unexpected_error, store |-> FALSE]
  ELSE ResolveAndInspect(reg[normalized_name][1], spec)

\* Variant: the cache is written but never read.
check_pypi_without_cache_hit(package_name, spec, cache, reg, transport) ==
  LET cache_key == CacheKey(package_name, spec)
      o == FetchAndCheck(cache_key.name, spec, reg, transport)
  IN [result   |-> o.result,
      cache    |-> IF o.store THEN (cache_key :> o.result) @@ cache ELSE cache,
      requests |-> 1,
      cached   |-> o.store \/ cache_key \in DOMAIN cache]

\* The whole call: the result, the cache after it, the number of registry
\* requests it made and whether the result is in the cache afterwards.
check_pypi_package_arm_compatibility(package_name, spec, cache, reg, transport) ==
  LET cache_key == CacheKey(package_name, spec) IN
  IF cache_key \in DOMAIN cache
  THEN [result |-> cache[cache_key], cache |-> cache, requests |-> 0, cached |-> TRUE]
  ELSE LET o == FetchAndCheck(cache_key.name, spec, reg, transport) IN
       [result   |-> o.result,
        cache    |-> IF o.store THEN (cache_key :> o.result) @@ cache ELSE cache,
        requests |-> 1,
        cached   |-> o.store]

\* ------------------------------------------------------------------------
\* get_latest_wheel_tester_results (wheel_test_api.py)
\* ------------------------------------------------------------------------

\* A parsed results payload.  kind: "dict", "list" or "number"; items: for a
\* dict the package entries by name, for a list the names it contains.
MkPayload(kind, items) == [kind |-> kind, items |-> items]

\* An entry of a package: a mapping from environment to result, or a value
\* of another shape.
MkEntry(shape, envs) == [shape |-> shape, envs |-> envs]

\* The result of one environment: a mapping with "test-passed" ("True",
\* "False" or "None" when absent) and "build-required", or another shape.
MkEnvResult(shape, passed, build) == [shape |-> shape, passed |-> passed, build |-> build]

\* An artifact of the run: whether its name contains ARTIFACT_NAME_PATTERN,
\* what its zip bundle holds ("ok", "bad_zip", "no_json_xz", "lzma_error",
\* "json_error") and the payload of its .json.xz member.
MkArtifact(results, bundle, payload) ==
  [results |-> results, bundle |-> bundle, payload |-> payload]

\* The first artifact whose name matches, else the first one.
TargetArtifact(artifacts) ==
  LET named == SelectSeq(artifacts, LAMBDA a : a.results) IN
  IF named # <<>> THEN named[1] ELSE artifacts[1]

\* The fetch sequence: the value returned (<<>> is None) and the number of
\* GitHub requests made.  src.fail names the request-level failure:
\* "no_token", "runs_error", "no_runs", "runs_key_error", "artifacts_error",
\* "download_error" or "none".
FetchResults(src) ==
  IF src.fail = "no_token" THEN [ret |-> <<>>, requests |-> 0]
  ELSE IF src.fail \in {"runs_error", "no_runs", "runs_key_error"}
  THEN [ret |-> <<>>, requests |-> 1]
  ELSE IF src.fail = "artifacts_error" \/ src.artifacts = <<>>
  THEN [ret |-> <<>>, requests |-> 2]
  ELSE IF src.fail = "download_error" \/ TargetArtifact(src.artifacts).bundle # "ok"
  THEN [ret |-> <<>>, requests |-> 3]
  ELSE [ret |-> <<TargetArtifact(src.artifacts).payload>>, requests |-> 3]

\* Variant: no fetched flag, the fetch sequence runs at every call.
get_latest_refetches(fetched, results_cache, src) ==
  LET f == FetchResults(src) IN
  [ret |-> f.ret, fetched |-> TRUE, cache |-> f.ret, requests |-> f.requests]

\* Variant: the fetched flag is set by a successful fetch only.
get_latest_retries_after_failure(fetched, results_cache, src) ==
  IF fetched
  THEN [ret |-> results_cache, fetched |-> TRUE, cache |-> results_cache, requests |-> 0]
  ELSE LET f == FetchResults(src) IN
       [ret |-> f.ret, fetched |-> f.ret # <<>>, cache |-> f.ret, requests |-> f.requests]

\* The whole call: the returned value, the two module globals after it and
\* the number of GitHub requests.
get_latest_wheel_tester_results(fetched, results_cache, src) ==
  IF fetched
  THEN [ret |-> results_cache, fetched |-> TRUE, cache |-> results_cache, requests |-> 0]
  ELSE LET f == FetchResults(src) IN
       [ret |-> f.ret, fetched |-> TRUE, cache |-> f.ret, requests |-> f.requests]

\* ------------------------------------------------------------------------
\* check_python_package_compatibility (python_package_compatibility.py)
\* ------------------------------------------------------------------------

\* The environments of the wheel tester, newest first.
TEST_ENVS == <<"noble", "jammy", "focal">>

\* The keys a package entry of the model may have, in the payload's order.
ENV_KEYS == <<"noble", "jammy", "focal", "bionic">>

\* bool(wheel_tester_results_data)
Truthy(ret) ==
  /\ ret # <<>>
  /\ CASE ret[1].kind \in {"dict", "list"} -> DOMAIN ret[1].items # {}
       [] ret[1].kind = "number"          -> TRUE
       [] OTHER                           -> FALSE

MkDebug(pypi_check, status, tests) ==
  [pypi_check |-> pypi_check, wheel_tester_check |-> [status |-> status, tests |-> tests]]

MkVerdict(name, spec, compatible, reason, debug_info) ==
  [dependency |-> name, name |-> name, version_spec |-> spec,
   compatible |-> compatible, reason |-> reason, debug_info |-> debug_info]

NoVerdict == MkVerdict(<<>>, <<>>, "None", <<>>, MkDebug(<<>>, "None", <<>>))

\* Variant: a registry "partial" is not recognised and becomes "unknown".
PypiStage_without_partial(pypi_result) ==
  [compatible |-> IF pypi_result.compatible \in {"True", "False"}
                  THEN pypi_result.compatible
                  ELSE "unknown",
   reason     |-> pypi_result.reason,
   warning    |-> pypi_result.warning]

\* Variant: the registry's value is taken over as it is.
PypiStage_takes_any_value(pypi_result) ==
  [compatible |-> pypi_result.compatible,
   reason     |-> pypi_result.reason,
   warning    |-> pypi_result.warning]

\* Step 1: the registry result becomes the candidate verdict.
PypiStage(pypi_result) ==
  [compatible |-> IF pypi_result.compatible \in {"True", "False", "partial"}
                  THEN pypi_result.compatible
                  ELSE "unknown",
   reason     |-> pypi_result.reason,
   warning    |-> pypi_result.warning]

passed_reason(test_env, test_result) ==
  <<"Passed on ", test_env, " in Wheel Tester", ".">>
    \o (IF test_result.build = "True" THEN <<" (Build was required)", ".">> ELSE <<>>)

\* Variant: the loop goes on after a pass, so that the oldest pass decides.
RECURSIVE EnvLoop_without_break(_, _, _)
EnvLoop_without_break(package_test_info, i, st) ==
  IF i > Len(TEST_ENVS) THEN st
  ELSE IF TEST_ENVS[i] \notin DOMAIN package_test_info
  THEN EnvLoop_without_break(package_test_info, i + 1, st)
  ELSE LET test_env    == TEST_ENVS[i]
           test_result == package_test_info[test_env]
       IN IF test_result.shape # "dict"
          THEN [st EXCEPT !.raised = TRUE]
          ELSE IF test_result.passed = "True"
          THEN EnvLoop_without_break(package_test_info, i + 1,
                 [st EXCEPT !.passed = TRUE,
                            !.compatible = "True",
                            !.reason = passed_reason(test_env, test_result)])
          ELSE EnvLoop_without_break(package_test_info, i + 1,
                 [st EXCEPT !.failed_tests =
                              IF st.failed_tests = <<>> THEN <<test_env>> ELSE @])

\* The loop over TEST_ENVS from position i.  st carries passed, the list
\* failed_tests, the candidate verdict and whether an exception escaped.
RECURSIVE EnvLoop(_, _, _)
EnvLoop(package_test_info, i, st) ==
  IF i > Len(TEST_ENVS) THEN st
  ELSE IF TEST_ENVS[i] \notin DOMAIN package_test_info
  THEN EnvLoop(package_test_info, i + 1, st)
  ELSE LET test_env    == TEST_ENVS[i]
           test_result == package_test_info[test_env]
       IN IF test_result.shape # "dict"
          THEN [st EXCEPT !.raised = TRUE]             \* test_result.get: AttributeError
          ELSE IF test_result.passed = "True"
          THEN [st EXCEPT !.passed = TRUE,             \* break
                          !.compatible = "True",
                          !.reason = passed_reason(test_env, test_result)]
          ELSE EnvLoop(package_test_info, i + 1,
                       [st EXCEPT !.failed_tests =
                                    IF st.failed_tests = <<>> THEN <<test_env>> ELSE @])

\* Variant: a failure in the wheel tester leaves a registry "unknown" alone.
AfterLoop_keeps_unknown(st) ==
  IF st.raised \/ st.passed \/ st.failed_tests = <<>> THEN st
  ELSE IF st.compatible = "False"
       THEN [st EXCEPT !.reason = <<"Failed on ", st.failed_tests[1], " in Wheel Tester", ".">>]
       ELSE IF st.compatible = "partial"
       THEN [st EXCEPT !.reason =
               @ \o <<" Additionally, failed on ", st.failed_tests[1], " in Wheel Tester", ".">>]
       ELSE st

\* Variant: a failure in the wheel tester also downgrades a registry True.
AfterLoop_downgrades_true(st) ==
  IF st.raised \/ st.passed \/ st.failed_tests = <<>> THEN st
  ELSE IF st.compatible # "partial"
       THEN [st EXCEPT !.compatible = "False",
                       !.reason = <<"Failed on ", st.failed_tests[1], " in Wheel Tester", ".">>]
       ELSE [st EXCEPT !.reason =
               @ \o <<" Additionally, failed on ", st.failed_tests[1], " in Wheel Tester", ".">>]

\* "if not passed_on_recent_ubuntu and failed_tests": the three branches in
\* the order of the code.
AfterLoop(st) ==
  IF st.raised \/ st.passed \/ st.failed_tests = <<>> THEN st
  ELSE LET failed_env == st.failed_tests[1] IN
       IF st.compatible \notin {"True", "partial"}
       THEN [st EXCEPT !.compatible = "False",
                       !.reason = <<"Failed on ", failed_env, " in Wheel Tester", ".">>]
       ELSE IF st.compatible = "partial"
       THEN [st EXCEPT !.reason =
               @ \o <<" Additionally, failed on ", failed_env, " in Wheel Tester", ".">>]
       ELSE IF st.compatible = "False"
       THEN [st EXCEPT !.reason =
               @ \o <<" Also failed on ", failed_env, " in Wheel Tester", ".">>]
       ELSE st

\* Step 2: the wheel tester results refine the candidate verdict.
FeedStage(normalized_name_for_tester, cand, feed_ret) ==
  LET st0 == [raised |-> FALSE, passed |-> FALSE, failed_tests |-> <<>>,
              compatible |-> cand.compatible, reason |-> cand.reason,
              status |-> "None", tests |-> <<>>]
  IN IF ~Truthy(feed_ret)
     THEN [st0 EXCEPT !.status = "fetch_error"]
     ELSE LET data == feed_ret[1] IN
          IF data.kind = "number"
          THEN [st0 EXCEPT !.raised = TRUE]            \* "in" on a number: TypeError
          ELSE IF normalized_name_for_tester \notin DOMAIN data.items
          THEN [st0 EXCEPT !.status = "not_found"]
          ELSE IF data.kind = "list"
          THEN [st0 EXCEPT !.raised = TRUE]            \* list[str]: TypeError
          ELSE LET info == data.items[normalized_name_for_tester] IN
               IF info.shape # "dict"
               THEN [st0 EXCEPT !.raised = TRUE]       \* .keys(): AttributeError
               ELSE AfterLoop(EnvLoop(info.envs, 1,
                      [st0 EXCEPT !.status = "found",
                                  !.tests = SelectSeq(ENV_KEYS,
                                              LAMBDA e : e \in DOMAIN info.envs)]))

\* Variant: a "partial" verdict gets no note.
Finalize_without_partial_note(compatible, reason, pypi_warning) ==
  LET noted == IF compatible = "unknown"
               THEN <<"Could not determine compatibility from PyPI or Wheel Tester (">>
                      \o reason \o <<")", ".", " Manual check recommended", ".">>
               ELSE reason
  IN IF pypi_warning # <<>>
     THEN RStripDot(noted) \o <<" (Warning: ">> \o pypi_warning \o <<")">>
     ELSE noted

\* Variant: a verdict decided by a wheel tester pass loses the warning.
Finalize_without_warning_on_pass(compatible, reason, pypi_warning) ==
  IF reason # <<>> /\ reason[1] = "Passed on " THEN reason
  ELSE IF pypi_warning # <<>>
  THEN RStripDot(reason) \o <<" (Warning: ">> \o pypi_warning \o <<")">>
  ELSE reason

\* The closing notes and the registry's warning.
Finalize(compatible, reason, pypi_warning) ==
  LET noted == IF compatible = "partial"
               THEN RStripDot(reason)
                      \o <<".", " Source compilation might be required on ARM64", ".">>
               ELSE IF compatible = "unknown"
               THEN <<"Could not determine compatibility from PyPI or Wheel Tester (">>
                      \o reason \o <<")", ".", " Manual check recommended", ".">>
               ELSE reason
  IN IF pypi_warning # <<>>
     THEN RStripDot(noted) \o <<" (Warning: ">> \o pypi_warning \o <<")">>
     ELSE noted

\* The function, given what its two callees returned: whether an exception
\* escapes to the caller, and the record returned otherwise.
check_python_package_compatibility(package_name, spec, pypi_result, feed_ret) ==
  LET cand == PypiStage(pypi_result)
      st   == FeedStage(clean_name(package_name), cand, feed_ret)
  IN IF st.raised
     THEN [raised |-> TRUE, verdict |-> NoVerdict]
     ELSE [raised  |-> FALSE,
           verdict |-> MkVerdict(package_name, spec, st.compatible,
                                 Finalize(st.compatible, st.reason, cand.warning),
                                 MkDebug(<<pypi_result>>, st.status, st.tests))]

\* ------------------------------------------------------------------------
\* The process: module globals, the environment and the calls
\* ------------------------------------------------------------------------
\* js_checker.py: _check_npm_package_compatibility

Bcrypt == <<"b", "c", "r", "y", "p", "t">>
Babel == <<"b", "a", "b", "e", "l">>

\* _PROBLEMATIC_PACKAGES and _KNOWN_COMPATIBLE_JS, a member of each.
PROBLEMATIC_PACKAGES == {Bcrypt}
KNOWN_COMPATIBLE_JS == {Babel}

\* The fields of a version's metadata the checker reads: gypfile, scripts
\* (script name -> command words), cpu and os (lists, <<>> when absent) and
\* the names of the dependencies.
MkNpmInfo(gypfile, scripts, cpu, os, dependencies) ==
  [gypfile |-> gypfile, scripts |-> scripts, cpu |-> cpu, os |-> os,
   dependencies |-> dependencies]

\* The registry document: versions maps a version to <<metadata>> or to <<>>
\* (an empty object), latest is dist-tags.latest, top is the document read as
\* metadata when it has no versions (<<>>: an empty document).
MkNpmData(versions, latest, top) == [versions |-> versions, latest |-> latest, top |-> top]

\* latest_version_info: <<metadata>>, or <<>> for None or an empty object.
LatestVersionInfo(data) ==
  IF DOMAIN data.versions # {}
  THEN IF data.latest \in DOMAIN data.versions THEN data.versions[data.latest] ELSE <<>>
  ELSE data.top

NoDetails == [status_code |-> 0, indicator |-> "None", error |-> "None"]

MkNpmResult(compatible, reason, source, details) ==
  [compatible |-> compatible, reason |-> reason,
   debug_info |-> [source |-> source, details |-> details]]

has_install_script(scripts) == DOMAIN scripts \cap {"install", "preinstall", "postinstall"} # {}

\* "node-gyp" in json.dumps(scripts): in a script's name or in its command.
MentionsNodeGyp(scripts) ==
  \E k \in DOMAIN scripts : k = "node-gyp" \/ "node-gyp" \in Range(scripts[k])

\* Variant: the os field is looked at before the cpu field.
NpmIndicator_os_before_cpu(info) ==
  IF info.gypfile \/ (has_install_script(info.scripts) /\ MentionsNodeGyp(info.scripts))
  THEN "gypfile or install script"
  ELSE IF info.os # <<>> /\ Range(info.os) \cap {"!win32", "!darwin", "linux"} = {}
  THEN "os field"
  ELSE IF info.cpu # <<>> /\ Range(info.cpu) \cap {"arm", "arm64", "!x64"} = {}
  THEN "cpu field"
  ELSE IF info.dependencies \cap PROBLEMATIC_PACKAGES # {}
  THEN "problematic dependency"
  ELSE "no native indicators found"

\* The first indicator of native code in the metadata, in the order of the
\* if/elif chain.
NpmIndicator(info) ==
  IF info.gypfile \/ (has_install_script(info.scripts) /\ MentionsNodeGyp(info.scripts))
  THEN "gypfile or install script"
  ELSE IF info.cpu # <<>> /\ Range(info.cpu) \cap {"arm", "arm64", "!x64"} = {}
  THEN "cpu field"
  ELSE IF info.os # <<>> /\ Range(info.os) \cap {"!win32", "!darwin", "linux"} = {}
  THEN "os field"
  ELSE IF info.dependencies \cap PROBLEMATIC_PACKAGES # {}
  THEN "problematic dependency"
  ELSE "no native indicators found"

\* The result for a 200 answer whose body parsed.
InspectNpmData(data) ==
  LET lvi == LatestVersionInfo(data)
      details(ind) == <<[NoDetails EXCEPT !.status_code = 200, !.indicator = ind]>>
  IN IF lvi = <<>>
     THEN MkNpmResult("unknown",
                      <<"Could not retrieve detailed version info from NPM registry", ".">>,
                      "npm_registry", details("None"))
     ELSE LET info == lvi[1]
              ind  == NpmIndicator(info)
          IN CASE ind = "gypfile or install script" ->
                    MkNpmResult("partial",
                                <<"Package likely uses node-gyp for native compilation", ".">>,
                                "npm_registry", details(ind))
               [] ind = "cpu field" ->
                    MkNpmResult("partial",
                                <<"Package specifies CPU compatibility (">> \o info.cpu
                                  \o <<") that may exclude ARM64", ".">>,
                                "npm_registry", details(ind))
               [] ind = "os field" ->
                    MkNpmResult("partial",
                                <<"Package specifies OS compatibility (">> \o info.os
                                  \o <<") that may indicate issues", ".">>,
                                "npm_registry", details(ind))
               [] ind = "problematic dependency" ->
                    MkNpmResult("partial",
                                <<"Package depends on other modules known to have native code issues", ".">>,
                                "npm_registry", details(ind))
               [] OTHER ->
                    MkNpmResult("True",
                                <<"Package appears to be pure JavaScript based on registry data", ".">>,
                                "npm_registry", details(ind))

\* What requests.get and response.json() do: the request raises a
\* RequestException, or answers with a status code and a body that parses to
\* a document or makes json() raise. Which class json() raises depends on the
\* installed requests: its own JSONDecodeError (a RequestException),
\* json.JSONDecodeError, or simplejson's, which is neither.
NpmRaises(error) == [kind |-> "raises", status_code |-> 0, error |-> error, data |-> <<>>]
NpmAnswer(status_code) ==
  [kind |-> "answer", status_code |-> status_code, error |-> "None", data |-> <<>>]
NpmBody(data) == [kind |-> "answer", status_code |-> 200, error |-> "None", data |-> <<data>>]
NpmUnparsable(error) ==
  [kind |-> "answer", status_code |-> 200, error |-> error, data |-> <<>>]

NetworkErrorResult(error) ==
  MkNpmResult("unknown", <<"Network error checking NPM: ", error>>, "npm_registry",
              <<[NoDetails EXCEPT !.error = error]>>)

\* The registry branch: the result, and whether control reaches the store
\* after the inner try statement.
NpmRegistry(package_name, response) ==
  CASE response.kind = "raises" ->
         [result |-> NetworkErrorResult(response.error), store |-> TRUE]
    [] response.status_code = 200 /\ response.error = "None" ->
         [result |-> InspectNpmData(response.data[1]), store |-> TRUE]
    [] response.status_code = 200 /\ response.error = "requests.JSONDecodeError" ->
         [result |-> NetworkErrorResult(response.error), store |-> TRUE]
    [] response.status_code = 200 /\ response.error = "json.JSONDecodeError" ->
         [result |-> MkNpmResult("unknown", <<"Failed to parse NPM registry response", ".">>,
                                 "npm_registry", <<[NoDetails EXCEPT !.error = response.error]>>),
          store |-> TRUE]
    [] response.status_code = 200 ->
         [result |-> MkNpmResult("unknown",
                                 <<"Unexpected error during JS compatibility check: ",
                                   response.error>>,
                                 "error", <<[NoDetails EXCEPT !.error = response.error]>>),
          store |-> FALSE]
    [] response.status_code = 404 ->
         [result |-> MkNpmResult("unknown",
                                 <<"Package '">> \o package_name
                                   \o <<"' not found on NPM registry", ".">>,
                                 "npm_registry",
                                 <<[NoDetails EXCEPT !.status_code = 404]>>),
          store |-> TRUE]
    [] OTHER ->
         [result |-> MkNpmResult("unknown",
                                 <<"NPM registry error: HTTP ", response.status_code>>,
                                 "npm_registry",
                                 <<[NoDetails EXCEPT !.status_code = response.status_code]>>),
          store |-> TRUE]

NpmCacheKey(package_name, package_version) ==
  IF package_version # <<>> THEN package_name \o <<"@">> \o package_version ELSE package_name

\* _check_npm_package_compatibility: the result, the cache after the call,
\* the number of registry requests made, and whether the cache answered.
check_npm_package_compatibility(package_name, package_version, cache, response) ==
  LET cache_key == NpmCacheKey(package_name, package_version)
      package_name_lower == Lower(package_name)
      stored(result) == (cache_key :> result) @@ cache
  IN IF cache_key \in DOMAIN cache
     THEN [result |-> cache[cache_key], cache |-> cache, requests |-> 0, cached |-> TRUE]
     ELSE IF package_name_lower \in PROBLEMATIC_PACKAGES
     THEN LET result ==
                MkNpmResult("partial",
                            <<"Package is known to often contain native code requiring ARM64 compilation/binaries", ".">>,
                            "heuristic_problematic", <<>>)
          IN [result |-> result, cache |-> stored(result), requests |-> 0, cached |-> FALSE]
     ELSE IF package_name_lower \in KNOWN_COMPATIBLE_JS
     THEN LET result ==
                MkNpmResult("True",
                            <<"Package is generally pure JavaScript and architecture-independent", ".">>,
                            "heuristic_compatible", <<>>)
          IN [result |-> result, cache |-> stored(result), requests |-> 0, cached |-> FALSE]
     ELSE LET r == NpmRegistry(package_name, response)
          IN [result |-> r.result,
              cache |-> IF r.store THEN stored(r.result) ELSE cache,
              requests |-> 1, cached |-> FALSE]

\* ------------------------------------------------------------------------

VARIABLES
  PYPI_CACHE,             \* pypi_api.PYPI_CACHE: cache key -> result
  latest_results_cache,   \* wheel_test_api._latest_results_cache (<<>>: None)
  cache_fetched,          \* wheel_test_api._cache_fetched
  registry,               \* environment: canonical name -> <<document>> or <<>>
  feedSrc,                \* environment: what the GitHub fetch sequence meets
  faults,                 \* environment: the ways a registry request can fail
  manifest,               \* the calls the process makes, in their order
  pc,                     \* index of the next call of the manifest
  last,                   \* the call made last: arguments, outcome, requests
  seen,                   \* per query, the verdict of its latest earlier check
  NPM_CACHE,              \* js_checker._NPM_CACHE: cache key -> result
  lastNpm,                \* the npm check made last: arguments, answer, outcome
  callers                 \* threads inside get_latest_wheel_tester_results

vars == <<PYPI_CACHE, latest_results_cache, cache_fetched, registry, feedSrc, faults,
          manifest, pc, last, seen, NPM_CACHE, lastNpm, callers>>

js == <<NPM_CACHE, lastNpm>>

env == <<registry, feedSrc, faults, manifest>>

MkQuery(name, spec) == [name |-> name, spec |-> spec]

\* A call of the manifest: op is "python" (check_python_package_compatibility),
\* "pypi" (check_pypi_package_arm_compatibility), "feed"
\* (get_latest_wheel_tester_results, which takes no argument) or "npm"
\* (_check_npm_package_compatibility, spec being its package_version).
Call(op, name, spec) == [op |-> op, name |-> name, spec |-> spec]

Python(name, spec) == Call("python", name, spec)
Pypi(name, spec) == Call("pypi", name, spec)
Feed == Call("feed", <<>>, <<>>)
Npm(name, version) == Call("npm", name, version)

\* check_python_package_compatibility(name) with the registry stage returning
\* a given result, one of GivenResults.
Given(name) == Call("given", name, <<>>)

\* MaxCallers threads call get_latest_wheel_tester_results() at once.
Concurrent == Call("concurrent", <<>>, <<>>)

Callers == 1..MaxCallers

\* A thread is outside the function ("idle"), past the test of
\* _cache_fetched and in the fetch sequence ("fetching"), or has returned
\* ret ("done"); fetched tells whether it started the fetch sequence.
MkCaller(at, fetched, ret) == [at |-> at, fetched |-> fetched, ret |-> ret]

NoResult == MkResult("None", <<>>, "None", <<>>)

EmptyMap == [k \in {} |-> NoResult]

NoCall ==
  [op |-> "none", name |-> <<>>, spec |-> <<>>, transport |-> "none", raised |-> FALSE,
   verdict |-> NoVerdict, pypi |-> NoResult, feed |-> <<>>,
   reqPypi |-> 0, reqFeed |-> 0, cached |-> FALSE, prev |-> <<>>]

\* Metadata the registry can hold for the latest version.
NoScripts == [k \in {} |-> <<>>]

NpmInfos ==
  {MkNpmInfo(g, sc, cpu, os, deps) :
     g \in BOOLEAN,
     sc \in {NoScripts, "install" :> <<"node-gyp", "rebuild">>, "preinstall" :> <<"echo">>},
     cpu \in {<<>>, <<"x64">>, <<"x64", "arm64">>},
     os \in {<<>>, <<"win32">>, <<"linux", "darwin">>},
     deps \in {{}, {Babel, Bcrypt}}}
    \cup {MkNpmInfo(FALSE, sc, <<>>, <<>>, {}) :
            sc \in {("postinstall" :> <<"echo">>) @@ ("test" :> <<"node-gyp", "rebuild">>),
                    "build" :> <<"node-gyp", "build">>}}
    \cup {MkNpmInfo(FALSE, NoScripts, <<"!arm64">>, <<>>, {}),
          MkNpmInfo(FALSE, NoScripts, <<"!x64">>, <<>>, {}),
          MkNpmInfo(FALSE, NoScripts, <<>>, <<"!win32">>, {}),
          MkNpmInfo(FALSE, NoScripts, <<>>, <<>>, {Babel})}

NoVersions == [v \in {} |-> <<>>]

\* Documents: the latest version's metadata under versions, a document
\* without versions read as metadata itself, a dist-tag that names no
\* version, an empty object for the latest version, an empty document.
NpmDocuments ==
  {MkNpmData("1.0.0" :> <<i>>, "1.0.0", <<>>) : i \in NpmInfos}
    \cup {MkNpmData(NoVersions, "None", <<MkNpmInfo(g, NoScripts, <<>>, <<>>, {})>>) :
            g \in BOOLEAN}
    \cup {MkNpmData("1.0.0" :> <<MkNpmInfo(TRUE, NoScripts, <<>>, <<>>, {})>>, "2.0.0", <<>>),
          MkNpmData("1.0.0" :> <<>>, "1.0.0", <<>>),
          MkNpmData(NoVersions, "None", <<>>)}

\* What a registry request can meet.
NpmResponses ==
  {NpmBody(d) : d \in NpmDocuments}
    \cup {NpmAnswer(404), NpmAnswer(500), NpmAnswer(503)}
    \cup {NpmRaises("ConnectionError"), NpmRaises("Timeout")}
    \cup {NpmUnparsable(e) : e \in {"requests.JSONDecodeError", "json.JSONDecodeError",
                                      "simplejson.JSONDecodeError"}}

NoNpmResult == MkNpmResult("None", <<>>, "None", <<>>)

NoNpmCall ==
  [op |-> "none", name |-> <<>>, version |-> <<>>, response |-> <<>>,
   result |-> NoNpmResult, requests |-> 0, cached |-> FALSE]

\* The state of a fresh process in a given environment.
Fresh ==
  /\ PYPI_CACHE = EmptyMap
  /\ latest_results_cache = <<>>
  /\ cache_fetched = FALSE
  /\ pc = 1
  /\ last = NoCall
  /\ seen = EmptyMap
  /\ NPM_CACHE = [k \in {} |-> NoNpmResult]
  /\ lastNpm = NoNpmCall
  /\ callers = [t \in Callers |-> MkCaller("idle", FALSE, <<>>)]

\* The outcomes the next registry request can have.
Outcomes == {"ok"} \cup faults

\* The next call is check_python_package_compatibility(name, spec).
CheckPythonPackage ==
  /\ pc <= Len(manifest)
  /\ manifest[pc].op = "python"
  /\ \E transport \in Outcomes :
       LET q == MkQuery(manifest[pc].name, manifest[pc].spec)
           p == check_pypi_package_arm_compatibility(q.name, q.spec, PYPI_CACHE,
                                                     registry, transport)
           f == get_latest_wheel_tester_results(cache_fetched, latest_results_cache, feedSrc)
           r == check_python_package_compatibility(q.name, q.spec, p.result, f.ret)
       IN /\ PYPI_CACHE' = p.cache
          /\ latest_results_cache' = f.cache
          /\ cache_fetched' = f.fetched
          /\ last' = [op |-> "python", name |-> q.name, spec |-> q.spec,
                      transport |-> IF p.requests = 0 THEN "none" ELSE transport,
                      raised |-> r.raised, verdict |-> r.verdict,
                      pypi |-> p.result, feed |-> f.ret,
                      reqPypi |-> p.requests, reqFeed |-> f.requests,
                      cached |-> p.cached,
                      prev |-> IF q \in DOMAIN seen THEN <<seen[q]>> ELSE <<>>]
          /\ seen' = IF r.raised THEN seen
                     ELSE (q :> [verdict |-> r.verdict, cached |-> p.cached]) @@ seen
  /\ pc' = pc + 1
  /\ UNCHANGED <<env, js, callers>>

\* The next call is check_pypi_package_arm_compatibility(name, spec).
CheckPypiPackage ==
  /\ pc <= Len(manifest)
  /\ manifest[pc].op = "pypi"
  /\ \E transport \in Outcomes :
       LET q == MkQuery(manifest[pc].name, manifest[pc].spec)
           p == check_pypi_package_arm_compatibility(q.name, q.spec, PYPI_CACHE,
                                                     registry, transport)
       IN /\ PYPI_CACHE' = p.cache
          /\ last' = [NoCall EXCEPT !.op = "pypi", !.name = q.name, !.spec = q.spec,
                                    !.transport = IF p.requests = 0 THEN "none" ELSE transport,
                                    !.pypi = p.result, !.reqPypi = p.requests,
                                    !.cached = p.cached]
  /\ pc' = pc + 1
  /\ UNCHANGED <<latest_results_cache, cache_fetched, seen, env, js, callers>>

\* The next call is get_latest_wheel_tester_results().
GetWheelTesterResults ==
  /\ pc <= Len(manifest)
  /\ manifest[pc].op = "feed"
  /\ LET f == get_latest_wheel_tester_results(cache_fetched, latest_results_cache, feedSrc)
     IN /\ latest_results_cache' = f.cache
        /\ cache_fetched' = f.fetched
        /\ last' = [NoCall EXCEPT !.op = "feed", !.feed = f.ret, !.reqFeed = f.requests]
  /\ pc' = pc + 1
  /\ UNCHANGED <<PYPI_CACHE, seen, env, js, callers>>

\* Whether the call makes a registry request: neither the cache nor the
\* lists decide it.
NpmAsks(package_name, package_version, cache) ==
  check_npm_package_compatibility(package_name, package_version, cache,
                                  NpmAnswer(404)).requests = 1

\* The next call is _check_npm_package_compatibility(name, version); the
\* answer of the registry, if it is asked, is any of NpmResponses.
CheckNpmPackage ==
  /\ pc <= Len(manifest)
  /\ manifest[pc].op = "npm"
  /\ \E response \in (IF NpmAsks(manifest[pc].name, manifest[pc].spec, NPM_CACHE)
                       THEN NpmResponses ELSE {NpmAnswer(404)}) :
       LET c == check_npm_package_compatibility(manifest[pc].name, manifest[pc].spec,
                                                NPM_CACHE, response)
       IN /\ NPM_CACHE' = c.cache
          /\ lastNpm' = [op |-> "npm", name |-> manifest[pc].name,
                         version |-> manifest[pc].spec,
                         response |-> IF c.requests = 0 THEN <<>> ELSE <<response>>,
                         result |-> c.result, requests |-> c.requests,
                         cached |-> c.cached]
  /\ pc' = pc + 1
  /\ UNCHANGED <<PYPI_CACHE, latest_results_cache, cache_fetched, last, seen, env, callers>>

\* Results for the registry stage to return: the four values of compatible,
\* the key missing (None) and a value that is none of the four, with and
\* without a warning.
GivenResults ==
  {MkResult(c, <<"reason", ".">>, "1.0.0", w) :
     c \in {"True", "False", "partial", "unknown", "None", "maybe"},
     w \in {<<>>, <<"Version ", "1.0.0", " has been yanked: ", "broken build">>}}

\* The next call is check_python_package_compatibility(name) in a process
\* whose check_pypi_package_arm_compatibility returns a given result.
CheckPythonPackageGiven ==
  /\ pc <= Len(manifest)
  /\ manifest[pc].op = "given"
  /\ \E pypi_result \in GivenResults :
       LET f == get_latest_wheel_tester_results(cache_fetched, latest_results_cache, feedSrc)
           r == check_python_package_compatibility(manifest[pc].name, manifest[pc].spec,
                                                   pypi_result, f.ret)
       IN /\ latest_results_cache' = f.cache
          /\ cache_fetched' = f.fetched
          /\ last' = [NoCall EXCEPT !.op = "given", !.name = manifest[pc].name,
                                    !.raised = r.raised, !.verdict = r.verdict,
                                    !.pypi = pypi_result, !.feed = f.ret,
                                    !.reqFeed = f.requests]
  /\ pc' = pc + 1
  /\ UNCHANGED <<PYPI_CACHE, seen, env, js, callers>>

\* A thread enters get_latest_wheel_tester_results: it reads _cache_fetched
\* and returns the cache, or goes on to the fetch sequence. Nothing holds
\* the other threads back meanwhile.
CallerEnters ==
  /\ pc <= Len(manifest)
  /\ manifest[pc].op = "concurrent"
  /\ \E t \in Callers :
       /\ callers[t].at = "idle"
       /\ callers' = [callers EXCEPT ![t] =
                        IF cache_fetched THEN MkCaller("done", FALSE, latest_results_cache)
                        ELSE MkCaller("fetching", TRUE, <<>>)]
  /\ UNCHANGED <<PYPI_CACHE, latest_results_cache, cache_fetched, pc, last, seen, env, js>>

\* A thread ends its fetch sequence: on success it stores the results, in
\* every case it sets _cache_fetched, and it returns.
CallerFetches ==
  /\ pc <= Len(manifest)
  /\ manifest[pc].op = "concurrent"
  /\ \E t \in Callers :
       /\ callers[t].at = "fetching"
       /\ LET f == get_latest_wheel_tester_results(FALSE, latest_results_cache, feedSrc)
          IN /\ latest_results_cache' = IF f.ret = <<>> THEN latest_results_cache ELSE f.cache
             /\ cache_fetched' = f.fetched
             /\ callers' = [callers EXCEPT ![t] = MkCaller("done", TRUE, f.ret)]
  /\ UNCHANGED <<PYPI_CACHE, pc, last, seen, env, js>>

\* Every thread has returned.
CallersReturn ==
  /\ pc <= Len(manifest)
  /\ manifest[pc].op = "concurrent"
  /\ \A t \in Callers : callers[t].at = "done"
  /\ pc' = pc + 1
  /\ UNCHANGED <<PYPI_CACHE, latest_results_cache, cache_fetched, last, seen, env, js, callers>>

Next ==
  \/ CheckPythonPackage \/ CheckPypiPackage \/ GetWheelTesterResults \/ CheckNpmPackage
  \/ CheckPythonPackageGiven
  \/ CallerEnters \/ CallerFetches \/ CallersReturn

\* ------------------------------------------------------------------------
\* Environments: registry documents
\* ------------------------------------------------------------------------

NameA == <<"a">>
NameB == <<"b">>

MkInfo(version, classifiers, platform) ==
  [version |-> version, classifiers |-> classifiers, platform |-> platform]

\* versions: the keys of releases in the document's order; files: the
\* release files of each key; info: the info block.
MkDoc(versions, files, info) == [versions |-> versions, files |-> files, info |-> info]

Wheel(tags) == MkFile(MkFilename(5, TRUE, tags), "bdist_wheel", FALSE, <<"None">>)

YankedWheel(tags, why) == MkFile(MkFilename(5, TRUE, tags), "bdist_wheel", TRUE, why)

Sdist == MkFile(MkFilename(2, FALSE, {}), "sdist", FALSE, <<"None">>)

YankedSdist(why) == MkFile(MkFilename(2, FALSE, {}), "sdist", TRUE, why)

\* A wheel whose file name has too few "-" fields to carry a platform tag.
ShortWheel == MkFile(MkFilename(2, TRUE, {"aarch64"}), "bdist_wheel", FALSE, <<"None">>)

Egg == MkFile(MkFilename(3, FALSE, {}), "bdist_egg", FALSE, <<"None">>)

ArmWheel == Wheel({"manylinux", "aarch64"})
X86Wheel == Wheel({"manylinux", "x86_64"})
AnyWheel == Wheel({"any"})

PlatformTags ==
  {{"manylinux", "aarch64"}, {"macosx", "arm64"}, {"manylinux", "x86_64"}, {"win_amd64"},
   {"any"}, {"macosx", "universal2"}, {"macosx", "x86_64", "universal2"},
   {"macosx", "x86_64", "arm64"}, {"manylinux", "ppc64le"}, {"win32"}}

FileKinds ==
  {Wheel(t) : t \in PlatformTags}
    \cup {YankedWheel({"manylinux", "aarch64"}, <<"broken build">>),
          YankedWheel({"any"}, <<"None">>),
          Sdist, YankedSdist(<<"broken build">>), YankedSdist(<<"None">>), YankedSdist(<<>>),
          ShortWheel, Egg}

InfoKinds ==
  {MkInfo("1.0.0", {}, "None"), MkInfo("1.0.0", {"Python"}, ""),
   MkInfo("1.0.0", {"Python"}, "any"), MkInfo("1.0.0", {"Python"}, "linux"),
   MkInfo("1.0.0", {"C"}, "None"), MkInfo("1.0.0", {"C++"}, "None"),
   MkInfo("1.0.0", {"Cython"}, "any")}

SeqsUpTo(S, n) == UNION {[1..k -> S] : k \in 0..n}

OneVersionDoc(files, info) == MkDoc(<<"1.0.0">>, "1.0.0" :> files, info)

\* One published version with every list of up to MaxFiles release files.
DocsClassify ==
  {OneVersionDoc(files, info) : files \in SeqsUpTo(FileKinds, MaxFiles), info \in InfoKinds}

\* The release files of each version of the package with several versions.
HistoryFiles(v) ==
  CASE v = "1.2.0"    -> <<ArmWheel>>
    [] v = "2.0.0"    -> <<X86Wheel>>
    [] v = "2.0.0rc1" -> <<Sdist, YankedWheel({"any"}, <<"broken build">>)>>
    [] OTHER          -> <<Sdist>>

\* The subsequences of VersionStrings with at most MaxVersions entries.
VersionLists ==
  {SelectSeq(VersionStrings, LAMBDA v : v \in {VersionStrings[i] : i \in I}) :
     I \in {J \in SUBSET (1..Len(VersionStrings)) : Cardinality(J) <= MaxVersions}}

HistoryDoc(versions, latest) ==
  MkDoc(versions, [v \in Range(versions) |-> HistoryFiles(v)], MkInfo(latest, {"C"}, "None"))

\* The clauses of the constraints of the model; the last two do not parse.
ClauseKinds ==
  <<<<">=", "1.0.0">>, <<">", "1.0.0">>, <<"==", "1.0.0">>,
    <<"<", "2.0.0">>, <<"<=", "2.0.0">>, <<"!=", "2.0.0">>,
    <<"=>", "1.0.0">>, <<">=", "not-a-version">>>>

\* The constraints with 1 to MaxClauses different clauses, in the order of
\* ClauseKinds.
Constraints ==
  {Join(SelectSeq(ClauseKinds, LAMBDA c : c \in {ClauseKinds[i] : i \in I}), <<",">>) :
     I \in {J \in SUBSET (1..Len(ClauseKinds)) : Cardinality(J) \in 1..MaxClauses}}

\* ------------------------------------------------------------------------
\* Environments: wheel tester results
\* ------------------------------------------------------------------------

Source(fail, artifacts) == [fail |-> fail, artifacts |-> artifacts]

NoToken == Source("no_token", <<>>)

Results(payload) == Source("none", <<MkArtifact(TRUE, "ok", payload)>>)

\* What an environment key of a package entry can hold.
EnvResultKinds ==
  {MkEnvResult("dict", "True", "False"), MkEnvResult("dict", "True", "True"),
   MkEnvResult("dict", "False", "False"), MkEnvResult("dict", "None", "False"),
   MkEnvResult("other", "None", "None")}

\* Every entry over the three environments, one over another key only, and
\* an entry that is no mapping.
EntryKinds ==
  UNION {[E -> EnvResultKinds] : E \in SUBSET Range(TEST_ENVS)}
    \cup {MkEntry("dict", "bionic" :> MkEnvResult("dict", "True", "False")).envs}

WellFormedEntries == {MkEntry("dict", envs) : envs \in EntryKinds}

NoEntries == [n \in {} |-> MkEntry("other", <<>>)]

PayloadsMerge ==
  {MkPayload("dict", NameA :> e) : e \in WellFormedEntries \cup {MkEntry("other", <<>>)}}
    \cup {MkPayload("dict", NameB :> MkEntry("dict", "noble" :> MkEnvResult("dict", "True", "False"))),
          MkPayload("dict", NoEntries),
          MkPayload("list", NameA :> MkEntry("other", <<>>)),
          MkPayload("list", NameB :> MkEntry("other", <<>>)),
          MkPayload("number", NoEntries)}

\* ------------------------------------------------------------------------
\* Specifications
\* ------------------------------------------------------------------------

FaultKinds == {{}} \cup {{t} : t \in Transport \ {"ok"}}

PassEntry == MkEntry("dict", "noble" :> MkEnvResult("dict", "True", "False"))
FailEntry == MkEntry("dict", "jammy" :> MkEnvResult("dict", "False", "False"))

DocsProcess ==
  {OneVersionDoc(<<ArmWheel>>, MkInfo("1.0.0", {}, "None")),
   OneVersionDoc(<<Sdist, YankedSdist(<<"broken build">>)>>, MkInfo("1.0.0", {"C"}, "None")),
   OneVersionDoc(<<X86Wheel>>, MkInfo("", {}, "None"))}

CallsProcess ==
  {Python(NameA, <<>>), Python(<<"A">>, <<>>), Python(NameA, <<">=", "1.0.0">>),
   Python(NameB, <<>>), Pypi(NameA, <<>>), Feed}

\* The calls on their own, for the specifications about one check.
OtherCalls == {<<Pypi(NameA, <<>>)>>, <<Feed>>}

\* A process that checks an npm package on the known-problematic list, one
\* whose threads fetch the wheel tester results together and one whose
\* registry stage returns a given result, for the specifications about
\* other calls.
ExtraCalls ==
  /\ registry = NameA :> <<>>
  /\ feedSrc = NoToken
  /\ faults = {}
  /\ manifest \in {<<Npm(Bcrypt, <<>>)>>, <<Concurrent>>, <<Given(NameA)>>}
  /\ Fresh

FeedsProcess ==
  {NoToken, Source("runs_error", <<>>),
   Results(MkPayload("dict", NameA :> PassEntry)),
   Results(MkPayload("dict", NameA :> FailEntry)),
   Results(MkPayload("dict", NameA :> MkEntry("other", <<>>)))}

\* A process that makes up to MaxManifest calls.
Init ==
  \/ /\ registry \in {NameA :> <<d>> : d \in DocsProcess}
     /\ feedSrc \in FeedsProcess
     /\ faults \in FaultKinds
     /\ manifest \in SeqsUpTo(CallsProcess, MaxManifest) \cup OtherCalls
     /\ Fresh
  \/ ExtraCalls

Spec == Init /\ [][Next]_vars

\* One check of a package with a single version, over every list of release
\* files and every shape of the info block.
InitClassify ==
  \/ /\ registry \in {NameA :> <<d>> : d \in DocsClassify}
     /\ feedSrc = NoToken
     /\ faults = {}
     /\ manifest \in {<<Python(NameA, <<>>)>>} \cup OtherCalls
     /\ Fresh
  \/ ExtraCalls

SpecClassify == InitClassify /\ [][Next]_vars

\* One check of a package with several versions: every constraint against
\* every list of published versions, and no constraint against every value
\* of info.version.
InitResolve ==
  \/ /\ \/ /\ manifest \in {<<Python(NameA, c)>> : c \in Constraints}
           /\ registry \in {NameA :> <<HistoryDoc(vs, "1.0.0")>> : vs \in VersionLists}
        \/ /\ manifest \in {<<Python(NameA, <<>>)>>} \cup OtherCalls
           /\ registry \in {NameA :> <<HistoryDoc(vs, latest)>> :
                              vs \in VersionLists, latest \in Range(VersionStrings) \cup {""}}
     /\ feedSrc = NoToken
     /\ faults = {}
     /\ Fresh
  \/ ExtraCalls

SpecResolve == InitResolve /\ [][Next]_vars

\* One check of a package against every registry verdict and every content
\* of the wheel tester results.
DocsMerge ==
  {OneVersionDoc(files, info) :
     files \in {<<ArmWheel>>, <<X86Wheel>>, <<Sdist>>, <<>>,
                <<ArmWheel, YankedSdist(<<"broken build">>)>>,
                <<X86Wheel, YankedWheel({"any"}, <<"None">>)>>,
                <<Sdist, YankedSdist(<<"broken build">>)>>,
                <<YankedSdist(<<"broken build">>)>>},
     info \in {MkInfo("1.0.0", {"Python"}, "None"), MkInfo("1.0.0", {"C"}, "None")}}

InitMerge ==
  \/ /\ registry \in {NameA :> <<d>> : d \in DocsMerge}
     /\ feedSrc \in {NoToken} \cup {Results(p) : p \in PayloadsMerge}
     /\ faults \in {{}, {"http_error"}}
     /\ manifest \in {<<Python(NameA, <<>>)>>, <<Python(NameB, <<>>)>>,
                      <<Pypi(NameA, <<>>), Python(NameA, <<>>)>>} \cup OtherCalls
     /\ Fresh
  \/ ExtraCalls

SpecMerge == InitMerge /\ [][Next]_vars

\* One or two calls with the same query, for every way the registry check
\* can end without inspecting a version: the package published or not, the
\* constraint absent, invalid, unsatisfiable or satisfiable, every fault of
\* the request.
DocsErrors == {HistoryDoc(<<"1.0.0", "1.2.0">>, "1.2.0"), HistoryDoc(<<"1.0.0">>, "")}

SpecsErrors ==
  {<<>>, <<"=>", "1.0.0">>, <<">=", "not-a-version">>, <<">", "2.0.0">>, <<">=", "1.0.0">>}

CallsErrors ==
  {Call(op, n, c) : op \in {"python", "pypi"}, n \in {NameA, NameB}, c \in SpecsErrors}

EntriesErrors ==
  {PassEntry, FailEntry,
   MkEntry("dict", "bionic" :> MkEnvResult("dict", "True", "False")),
   MkEntry("other", <<>>)}

FeedsErrors ==
  {NoToken, Results(MkPayload("dict", NoEntries))}
    \cup {Results(MkPayload("dict", [n \in {NameA, NameB} |-> e])) : e \in EntriesErrors}

InitErrors ==
  \/ /\ registry \in {NameA :> <<d>> : d \in DocsErrors}
     /\ feedSrc \in FeedsErrors
     /\ faults \in FaultKinds
     /\ manifest \in {<<c>> : c \in CallsErrors} \cup {<<c, c>> : c \in CallsErrors}
                       \cup OtherCalls
     /\ Fresh
  \/ ExtraCalls

SpecErrors == InitErrors /\ [][Next]_vars

\* Calls that use the wheel tester results, against every way the fetch
\* sequence can end.
ArtifactsFeed ==
  {MkArtifact(r, "ok", MkPayload("dict", NameA :> PassEntry)) : r \in BOOLEAN}
    \cup {MkArtifact(TRUE, "ok", MkPayload("dict", NoEntries))}
    \cup {MkArtifact(TRUE, b, MkPayload("dict", NoEntries)) :
            b \in {"bad_zip", "no_json_xz", "lzma_error", "json_error"}}
    \cup {MkArtifact(FALSE, "bad_zip", MkPayload("dict", NoEntries))}

SourcesFeed ==
  {Source(f, <<>>) :
     f \in {"no_token", "runs_error", "no_runs", "runs_key_error", "artifacts_error"}}
    \cup {Source(f, as) : f \in {"none", "download_error"},
                          as \in SeqsUpTo(ArtifactsFeed, MaxArtifacts)}

InitFeed ==
  \/ /\ registry = NameA :> <<OneVersionDoc(<<X86Wheel>>, MkInfo("1.0.0", {}, "None"))>>
     /\ feedSrc \in SourcesFeed
     /\ faults = {}
     /\ manifest \in (SeqsUpTo({Feed, Python(NameA, <<>>)}, MaxManifest) \ {<<>>})
                       \cup {<<Concurrent>>}
                       \cup OtherCalls
     /\ Fresh
  \/ ExtraCalls

SpecFeed == InitFeed /\ [][Next]_vars

\* One check of a package under every spelling of its name: letters in
\* either case around separators, the registry and the wheel tester results
\* keyed by canonical names.
RawNames ==
  {n \in UNION {[1..k -> {"a", "B", "_", "."}] : k \in 1..MaxName} :
     ~IsSeparator(n[1]) /\ ~IsSeparator(n[Len(n)])}

CanonicalNames == {canonicalize_name(n) : n \in RawNames}

InitNames ==
  \/ /\ registry = [n \in CanonicalNames |->
                      <<OneVersionDoc(<<X86Wheel>>, MkInfo("1.0.0", {}, "None"))>>]
     /\ feedSrc \in {NoToken}
                      \cup {Results(MkPayload("dict", k :> PassEntry)) : k \in CanonicalNames}
     /\ faults = {}
     /\ manifest \in {<<Python(n, <<>>)>> : n \in RawNames} \cup OtherCalls
     /\ Fresh
  \/ ExtraCalls

SpecNames == InitNames /\ [][Next]_vars

\* One check of a package for every result the registry stage can be made
\* to return and every content of the wheel tester results.
InitVerdict ==
  \/ /\ registry = NameA :> <<>>
     /\ feedSrc \in {NoToken} \cup {Results(p) : p \in PayloadsMerge}
     /\ faults = {}
     /\ manifest \in {<<Given(NameA)>>, <<Python(NameA, <<>>)>>} \cup OtherCalls
     /\ Fresh
  \/ ExtraCalls

SpecVerdict == InitVerdict /\ [][Next]_vars

\* Checks of npm packages: names on either list in either case, a name on
\* neither, with and without a version.
CallsNpm ==
  {Npm(n, v) : n \in {Bcrypt, <<"B">> \o Tail(Bcrypt), Babel, NameA}, v \in {<<>>}}
    \cup {Npm(NameA, <<"1.0.0">>)}

InitNpm ==
  \/ /\ registry = NameA :> <<>>
     /\ feedSrc = NoToken
     /\ faults = {}
     /\ manifest \in SeqsUpTo(CallsNpm, MaxManifest) \cup {<<Python(NameA, <<>>)>>}
                       \cup OtherCalls
     /\ Fresh
  \/ ExtraCalls

SpecNpm == InitNpm /\ [][Next]_vars

\* ------------------------------------------------------------------------
\* Properties
\* ------------------------------------------------------------------------

PythonCall == last.op = "python"

Returned == PythonCall /\ ~last.raised

\* The document the registry holds for the package of the last call.
LastPublished == Published(registry, canonicalize_name(last.name))

LastDoc == registry[canonicalize_name(last.name)][1]

\* The entry of the package of the last call in the returned results.
FeedHasEntry ==
  /\ Truthy(last.feed)
  /\ last.feed[1].kind = "dict"
  /\ clean_name(last.name) \in DOMAIN last.feed[1].items

LastEntry == last.feed[1].items[clean_name(last.name)]

\* The entry is a mapping, and so is the result of every environment in it.
EntryWellFormed ==
  /\ LastEntry.shape = "dict"
  /\ \A e \in DOMAIN LastEntry.envs : LastEntry.envs[e].shape = "dict"

\* The results are absent, do not name the package, or name it with a
\* well-formed entry.
FeedWellFormed ==
  \/ ~Truthy(last.feed)
  \/ /\ last.feed[1].kind = "dict"
     /\ FeedHasEntry => EntryWellFormed

EndsWith(s, t) == Len(s) >= Len(t) /\ SubSeq(s, Len(s) - Len(t) + 1, Len(s)) = t

StartsWith(s, t) == Len(s) >= Len(t) /\ SubSeq(s, 1, Len(t)) = t

\* C1 as claimed: a second check_python_package_compatibility call with the
\* same (name, constraint) returns the same verdict as the first and makes
\* no registry and no wheel tester request, whatever the first call met.
C1_IdempotentAlways ==
  (PythonCall /\ last.prev # <<>>) =>
    /\ ~last.raised
    /\ last.verdict = last.prev[1].verdict
    /\ last.reqPypi = 0
    /\ last.reqFeed = 0

\* C1 amended: a second call with the same (name, constraint) never requests
\* the wheel tester; and when the registry outcome of the earlier call was
\* one that is kept in PYPI_CACHE, it returns the same verdict and makes no
\* registry request either.
C1_IdempotentWhenCached ==
  (PythonCall /\ last.prev # <<>>) =>
    /\ last.reqFeed = 0
    /\ last.prev[1].cached =>
         /\ ~last.raised
         /\ last.verdict = last.prev[1].verdict
         /\ last.reqPypi = 0

\* A repeated check whose first registry outcome was cached, here a verdict
\* for an inspected version.
C1_Witness ==
  /\ PythonCall /\ last.prev # <<>> /\ last.prev[1].cached
  /\ last.reqPypi = 0
  /\ last.pypi.checked_version = "1.0.0"
  /\ last.verdict.compatible = "True"

\* C2: when the registry check returns compatible = True, every verdict that
\* check_python_package_compatibility returns is True, for every content of
\* the wheel tester results; and it does return one whenever the results
\* are absent, lack the package or hold a well-formed entry for it.
C2_RegistryPositiveWins ==
  (PythonCall /\ last.pypi.compatible = "True") =>
    /\ ~last.raised => last.verdict.compatible = "True"
    /\ FeedWellFormed => ~last.raised

\* Registry True while every environment of the entry reports a failure.
C2_Witness ==
  /\ Returned /\ last.pypi.compatible = "True"
  /\ FeedHasEntry /\ EntryWellFormed
  /\ DOMAIN LastEntry.envs = Range(TEST_ENVS)
  /\ \A e \in Range(TEST_ENVS) : LastEntry.envs[e].passed = "False"
  /\ last.verdict.compatible = "True"

\* C3: when get_latest_wheel_tester_results returns None, the call returns a
\* verdict whose compatible value is the one of the registry result.
C3_FeedAbsenceNeutral ==
  (PythonCall /\ last.feed = <<>>) =>
    /\ ~last.raised
    /\ last.verdict.compatible = last.pypi.compatible

\* No results and a registry "partial".
C3_Witness ==
  /\ PythonCall /\ last.feed = <<>> /\ last.reqFeed = 0 /\ cache_fetched
  /\ last.pypi.compatible = "partial"
  /\ last.verdict.compatible = "partial"

\* The version the registry check resolved is yanked in the registry data.
ResolvedIsYanked ==
  /\ LastPublished
  /\ last.pypi.checked_version \in Range(LastDoc.versions)
  /\ \E i \in 1..Len(LastDoc.files[last.pypi.checked_version]) :
       LastDoc.files[last.pypi.checked_version][i].yanked

\* The yank reasons of the yanked files of the resolved version, as printed.
YankReasons ==
  LET files == LastDoc.files[last.pypi.checked_version] IN
  {IF files[i].yanked_reason = <<>> THEN "No reason provided" ELSE files[i].yanked_reason[1] :
     i \in {j \in 1..Len(files) : files[j].yanked}}

\* C4: when the resolved version is yanked, the reason of every returned
\* verdict ends with the warning that names the version and a yank reason
\* of the registry data.
C4_YankSurfaced ==
  (Returned /\ ResolvedIsYanked) =>
    \E why \in YankReasons :
      EndsWith(last.verdict.reason,
               <<" (Warning: ", "Version ", last.pypi.checked_version,
                 " has been yanked: ", why, ")">>)

\* A yanked version, served from PYPI_CACHE, whose registry reason was
\* replaced by a pass in the wheel tester.
C4_Witness ==
  /\ Returned /\ ResolvedIsYanked
  /\ last.reqPypi = 0
  /\ last.pypi.compatible = "partial"
  /\ StartsWith(last.verdict.reason, <<"Passed on ">>)
  /\ last.verdict.compatible = "True"

\* The clauses of the constraint of the last call, and the published
\* versions that parse.
LastClauses == Clauses(last.spec)

Satisfies(v) == \A i \in 1..Len(LastClauses) : ClauseContains(LastClauses[i], v)

ParsablePublished ==
  {parse_version(LastDoc.versions[i]) : i \in 1..Len(LastDoc.versions)} \ {NoVersion}

\* C5: a checked_version reported for a query with a constraint satisfies
\* every clause of the constraint, and no published version that parses and
\* satisfies the constraint is greater.
C5_SatisfiesAndMaximal ==
  (last.op \in {"python", "pypi"} /\ last.spec # <<>> /\ last.pypi.checked_version # "None") =>
    LET v == parse_version(last.pypi.checked_version) IN
    /\ v.ok
    /\ Satisfies(v)
    /\ v \in ParsablePublished
    /\ \A w \in ParsablePublished : Satisfies(w) => VersionCmp(w, v) <= 0

\* Versions 1.0.0, 1.1.0, 1.2.0, 2.0.0 with >=1.0.0,<2.0.0 select 1.2.0.
C5_Witness ==
  /\ PythonCall
  /\ last.spec = <<">=", "1.0.0", ",", "<", "2.0.0">>
  /\ LastPublished
  /\ LastDoc.versions = <<"1.0.0", "1.1.0", "1.2.0", "2.0.0">>
  /\ last.pypi.checked_version = "1.2.0"

\* The registry document of the last call without the version strings that
\* do not parse.
HasUnparsable == \E i \in 1..Len(LastDoc.versions) : ~parse_version(LastDoc.versions[i]).ok

CleanVersions == SelectSeq(LastDoc.versions, LAMBDA v : parse_version(v).ok)

CleanDoc ==
  MkDoc(CleanVersions, [v \in Range(CleanVersions) |-> LastDoc.files[v]], LastDoc.info)

ResolvedWithUnparsable ==
  /\ last.op \in {"python", "pypi"} /\ last.spec # <<>>
  /\ last.transport = "ok" /\ LastPublished
  /\ HasUnparsable /\ CleanVersions # <<>>

\* C6 as claimed: with version strings that do not parse in the list, the
\* result of a resolution with a constraint is the result for the list
\* without them.
C6_SameResultAsWithout ==
  ResolvedWithUnparsable => last.pypi = ResolveAndInspect(CleanDoc, last.spec).result

\* C6 amended: the result has the compatible value, the checked_version and
\* the warning of the result for the list without the unparsable strings;
\* its reason is the same too, except when no version satisfies the
\* constraint, where the preview of the reason lists the strings of the
\* full list.
C6_UnparsableTolerated ==
  ResolvedWithUnparsable =>
    LET r == ResolveAndInspect(CleanDoc, last.spec).result IN
    /\ last.pypi.compatible = r.compatible
    /\ last.pypi.checked_version = r.checked_version
    /\ last.pypi.warning = r.warning
    /\ last.pypi.reason # r.reason =>
         /\ ValidSpecifier(last.spec)
         /\ \A w \in ParsablePublished : ~Satisfies(w)
         /\ last.pypi.reason = result_no_satisfy(last.spec, LastDoc.versions).reason

\* An unparsable string beside 1.0.0 and 1.2.0, and 1.2.0 selected.
C6_Witness ==
  /\ ResolvedWithUnparsable
  /\ LastDoc.versions = <<"1.0.0", "1.2.0", "not-a-version">>
  /\ last.spec = <<">", "1.0.0">>
  /\ last.pypi.checked_version = "1.2.0"
  /\ last.pypi.compatible = "True"

\* The positions in TEST_ENVS of the environments of the entry that passed,
\* and of those that are present.
PassingEnvs ==
  {i \in 1..Len(TEST_ENVS) :
     /\ TEST_ENVS[i] \in DOMAIN LastEntry.envs
     /\ LastEntry.envs[TEST_ENVS[i]].passed = "True"}

PresentEnvs == {i \in 1..Len(TEST_ENVS) : TEST_ENVS[i] \in DOMAIN LastEntry.envs}

First(I) == TEST_ENVS[CHOOSE i \in I : \A j \in I : i <= j]

HasTokens(s, t) == \E i \in 1..Len(s) : i + Len(t) - 1 <= Len(s) /\ SubSeq(s, i, i + Len(t) - 1) = t

\* C7: when the entry of the package is well formed and an environment
\* passed, the call returns True, the reason starts by naming the first
\* environment in the order noble, jammy, focal that passed, and it has the
\* build note exactly when that environment reports build-required.
C7_FeedPassOverrides ==
  (PythonCall /\ FeedHasEntry /\ EntryWellFormed /\ PassingEnvs # {}) =>
    /\ ~last.raised
    /\ last.verdict.compatible = "True"
    /\ StartsWith(last.verdict.reason, <<"Passed on ", First(PassingEnvs), " in Wheel Tester">>)
    /\ HasTokens(last.verdict.reason, <<" (Build was required)">>)
         <=> LastEntry.envs[First(PassingEnvs)].build = "True"

\* noble failed, jammy passed after a build, focal passed, registry False.
C7_Witness ==
  /\ PythonCall /\ FeedHasEntry /\ EntryWellFormed
  /\ DOMAIN LastEntry.envs = Range(TEST_ENVS)
  /\ LastEntry.envs["noble"].passed = "False"
  /\ LastEntry.envs["jammy"].passed = "True" /\ LastEntry.envs["jammy"].build = "True"
  /\ LastEntry.envs["focal"].passed = "True" /\ LastEntry.envs["focal"].build = "False"
  /\ last.pypi.compatible = "False"
  /\ last.verdict.compatible = "True"
  /\ StartsWith(last.verdict.reason, <<"Passed on ", "jammy">>)

\* No environment of a well-formed entry passed, and one at least is there.
FeedFailed ==
  PythonCall /\ FeedHasEntry /\ EntryWellFormed /\ PassingEnvs = {} /\ PresentEnvs # {}

\* C8 as claimed: a failure in the wheel tester turns a registry "unknown"
\* or "partial" into False, with a reason that names the failed environment.
C8_FailureDowngradesBoth ==
  (FeedFailed /\ last.pypi.compatible \in {"unknown", "partial"}) =>
    /\ last.verdict.compatible = "False"
    /\ HasTokens(last.verdict.reason, <<First(PresentEnvs), " in Wheel Tester">>)

\* C8 amended: a failure in the wheel tester turns a registry "unknown" into
\* False with the reason "Failed on <env> in Wheel Tester"; a registry
\* "partial" stays "partial" and the failure is appended to its reason.  In
\* both <env> is the first environment present in the order noble, jammy,
\* focal.
C8_FailureDowngradesUnknown ==
  /\ (FeedFailed /\ last.pypi.compatible = "unknown") =>
       /\ ~last.raised
       /\ last.verdict.compatible = "False"
       /\ StartsWith(last.verdict.reason,
                     <<"Failed on ", First(PresentEnvs), " in Wheel Tester">>)
  /\ (FeedFailed /\ last.pypi.compatible = "partial") =>
       /\ ~last.raised
       /\ last.verdict.compatible = "partial"
       /\ StartsWith(last.verdict.reason, RStripDot(last.pypi.reason))
       /\ HasTokens(last.verdict.reason,
                    <<" Additionally, failed on ", First(PresentEnvs), " in Wheel Tester">>)

\* Registry "unknown" for a package the registry does not have, jammy failed.
C8_Witness ==
  /\ FeedFailed
  /\ last.pypi.compatible = "unknown"
  /\ DOMAIN LastEntry.envs = {"jammy", "focal"}
  /\ LastEntry.envs["jammy"].passed = "False"
  /\ last.verdict.compatible = "False"
  /\ StartsWith(last.verdict.reason, <<"Failed on ", "jammy">>)

\* The evidence among the release files of the inspected version.
InspectedFiles == LastDoc.files[last.pypi.checked_version]

Evidence(class) == \E i \in 1..Len(InspectedFiles) : FileClass(InspectedFiles[i]) = class

NativeIndicators ==
  \/ LastDoc.info.classifiers \cap {"C", "C++", "Cython"} # {}
  \/ LastDoc.info.platform \notin {"None", "", "any"}

VersionYanked == \E i \in 1..Len(InspectedFiles) : InspectedFiles[i].yanked

Inspected ==
  /\ last.op \in {"python", "pypi"} /\ LastPublished
  /\ last.pypi.checked_version \in Range(LastDoc.versions)

\* C9: the registry verdict for the inspected version is that of the first
\* rule that applies: ARM wheel, True; platform-agnostic wheel, True; source
\* distribution, "partial" with native indicators and True without; wheels
\* of other architectures only, False; nothing usable, False, or "unknown"
\* when the version is yanked.
C9_DecisionPrecedence ==
  Inspected =>
    last.pypi.compatible =
      (IF Evidence("arm") THEN "True"
       ELSE IF Evidence("universal") THEN "True"
       ELSE IF Evidence("sdist") THEN (IF NativeIndicators THEN "partial" ELSE "True")
       ELSE IF Evidence("other_arch") THEN "False"
       ELSE IF VersionYanked THEN "unknown" ELSE "False")

\* A platform-agnostic wheel beside a source distribution of a package with
\* C classifiers: the second rule decides before the third.
C9_Witness ==
  /\ Inspected
  /\ ~Evidence("arm") /\ Evidence("universal") /\ Evidence("sdist") /\ NativeIndicators
  /\ last.pypi.compatible = "True"

\* C10: check_python_package_compatibility returns a verdict for every
\* registry response and every content of the wheel tester results.
C10_NeverRaises == PythonCall => ~last.raised

\* The registry request of the last call ended in an error outcome: a
\* transport fault, a 404, an invalid constraint or no satisfying version.
RegistryError ==
  /\ last.op \in {"python", "pypi"}
  /\ last.reqPypi = 1
  /\ \/ last.transport # "ok"
     \/ ~LastPublished
     \/ /\ last.spec # <<>>
        /\ \/ ~ValidSpecifier(last.spec)
           \/ allowed_versions(last.spec, LastDoc.versions) = <<>>

\* C11 as claimed: after an error outcome of the registry check the final
\* verdict is "unknown" with a reason, whatever the wheel tester results.
C11_ErrorsAlwaysUnknown ==
  (PythonCall /\ RegistryError) =>
    /\ ~last.raised
    /\ last.verdict.compatible = "unknown"
    /\ last.verdict.reason # <<>>

\* C11 amended: after an error outcome the registry result is "unknown"
\* with a reason.  The final verdict is "unknown", with that reason in its
\* own, when the results are absent or have no well-formed entry with a test
\* environment for the package; it is True when an environment of the entry
\* passed, and False when none passed and one is there.
C11_ErrorsUnknownUnlessTested ==
  RegistryError =>
    /\ last.pypi.compatible = "unknown"
    /\ last.pypi.reason # <<>>
    /\ (PythonCall /\ FeedWellFormed) =>
         /\ ~last.raised
         /\ last.verdict.compatible =
              (IF FeedHasEntry /\ PassingEnvs # {} THEN "True"
               ELSE IF FeedHasEntry /\ PresentEnvs # {} THEN "False"
               ELSE "unknown")
         /\ (~FeedHasEntry \/ PresentEnvs = {}) =>
               StartsWith(last.verdict.reason,
                          <<"Could not determine compatibility from PyPI or Wheel Tester (">>
                            \o last.pypi.reason)

\* A network failure, and results whose entry names no test environment.
C11_Witness ==
  /\ PythonCall /\ RegistryError
  /\ last.transport = "network_error"
  /\ FeedHasEntry /\ EntryWellFormed /\ PresentEnvs = {}
  /\ last.verdict.compatible = "unknown"
  /\ StartsWith(last.verdict.reason,
                <<"Could not determine compatibility from PyPI or Wheel Tester (",
                  "Network error checking PyPI: ">>)

\* The registry request of the last call ended in a transient error: a
\* status other than 200 and 404, a network failure or timeout, or a body of
\* a 200 response that cannot be used.
TransientError ==
  /\ last.op \in {"python", "pypi"}
  /\ last.reqPypi = 1
  /\ \/ last.transport \in {"http_error", "network_error"}
     \/ last.transport \in {"bad_json", "bad_shape"} /\ LastPublished

LastKey == CacheKey(last.name, last.spec)

\* C12: a call whose registry request ends in a transient error leaves
\* PYPI_CACHE as it was, without an entry for the query; and a call for a
\* query that has no entry in PYPI_CACHE makes a registry request.
C12_TransientNotCached ==
  [][(pc' = pc + 1 /\ last'.op \in {"python", "pypi"}) =>
       /\ TransientError' => (PYPI_CACHE' = PYPI_CACHE /\ LastKey' \notin DOMAIN PYPI_CACHE')
       /\ LastKey' \notin DOMAIN PYPI_CACHE => last'.reqPypi = 1]_vars

\* The second of two checks of a query: the first got an HTTP error, the
\* second makes a new request and finds ARM wheels.
C12_Witness ==
  /\ PythonCall /\ pc = 3
  /\ last.prev # <<>>
  /\ ~last.prev[1].cached
  /\ HasTokens(last.prev[1].verdict.reason, <<"PyPI API error for '">>)
  /\ last.reqPypi = 1 /\ last.transport = "ok"
  /\ last.pypi.compatible = "True"
  /\ LastKey \in DOMAIN PYPI_CACHE

\* The last call used the wheel tester results; the calls before it that
\* did.
FeedCall == last.op \in {"feed", "python"}

EarlierFeedCalls == {i \in 1..(pc - 2) : manifest[i].op \in {"feed", "python"}}

\* C13: the first call that uses the wheel tester results runs the fetch
\* sequence; every later one makes no request and returns the value of the
\* first, the results or None.
C13_FeedFetchedOnce ==
  FeedCall =>
    /\ last.feed = FetchResults(feedSrc).ret
    /\ last.reqFeed = (IF EarlierFeedCalls = {} THEN FetchResults(feedSrc).requests ELSE 0)

\* A check of a package after a direct call: no request, and the results of
\* the first call decide the verdict.
C13_Witness ==
  /\ pc = 3 /\ manifest[1].op = "feed" /\ PythonCall
  /\ feedSrc.fail = "none" /\ Len(feedSrc.artifacts) = 2
  /\ ~feedSrc.artifacts[1].results /\ feedSrc.artifacts[2].results
  /\ last.reqFeed = 0
  /\ last.feed = <<MkPayload("dict", NameA :> PassEntry)>>
  /\ last.verdict.compatible = "True"

\* The fetch sequence fails at one of its steps.
FetchFails ==
  \/ feedSrc.fail # "none"
  \/ feedSrc.artifacts = <<>>
  \/ TargetArtifact(feedSrc.artifacts).bundle # "ok"

\* C14: when the fetch sequence fails at any step, every call returns None,
\* the fetched flag is set after the first, and no later call makes a
\* request.
C14_FeedFailsOnce ==
  (FeedCall /\ FetchFails) =>
    /\ last.feed = <<>>
    /\ cache_fetched
    /\ latest_results_cache = <<>>
    /\ EarlierFeedCalls # {} => last.reqFeed = 0

\* The second call after a fetch that ended in an LZMA error.
C14_Witness ==
  /\ pc = 3 /\ FeedCall /\ EarlierFeedCalls = {1}
  /\ feedSrc.fail = "none" /\ feedSrc.artifacts # <<>>
  /\ TargetArtifact(feedSrc.artifacts).bundle = "lzma_error"
  /\ last.feed = <<>> /\ last.reqFeed = 0 /\ cache_fetched

\* The registry answered the request of the last call with status 404.
Answered404 ==
  /\ last.op \in {"python", "pypi"}
  /\ last.reqPypi = 1
  /\ last.transport \notin {"http_error", "network_error"}
  /\ ~LastPublished

NotFoundReason == <<"Package '">> \o canonicalize_name(last.name) \o <<"' not found on PyPI", ".">>

\* C15: a 404 for a query without a constraint gives "unknown" with the
\* reason that the package was not found, and the result is stored in
\* PYPI_CACHE; a call that finds the query in PYPI_CACHE makes no registry
\* request and returns the stored result.  The final verdict is "unknown"
\* too when the wheel tester results do not name the package.
C15_NotFoundCached ==
  [][(pc' = pc + 1 /\ last'.op \in {"python", "pypi"} /\ last'.spec = <<>>
        /\ ~LastPublished') =>
       /\ Answered404' =>
            /\ last'.pypi.compatible = "unknown"
            /\ last'.pypi.reason = NotFoundReason'
            /\ LastKey' \in DOMAIN PYPI_CACHE'
            /\ PYPI_CACHE'[LastKey'] = last'.pypi
       /\ LastKey' \in DOMAIN PYPI_CACHE =>
            /\ last'.reqPypi = 0
            /\ last'.pypi = PYPI_CACHE[LastKey']
            /\ last'.pypi.reason = NotFoundReason'
       /\ (PythonCall' /\ last'.pypi.reason = NotFoundReason'
             /\ FeedWellFormed' /\ ~FeedHasEntry') =>
            /\ last'.verdict.compatible = "unknown"
            /\ HasTokens(last'.verdict.reason, NotFoundReason')]_vars

\* The second of two checks of a package the registry does not have.
C15_Witness ==
  /\ pc = 3 /\ PythonCall /\ last.spec = <<>>
  /\ ~LastPublished
  /\ last.reqPypi = 0
  /\ last.pypi.reason = NotFoundReason
  /\ last.prev # <<>> /\ last.prev[1].verdict = last.verdict
  /\ last.verdict.compatible = "unknown"

\* The last call made a registry request for a query whose constraint does
\* not parse.
InvalidQuery ==
  /\ last.op \in {"python", "pypi"}
  /\ last.reqPypi = 1
  /\ last.spec # <<>> /\ ~ValidSpecifier(last.spec)

InvalidReason == <<"Invalid version specifier: '">> \o last.spec \o <<"'">>

\* C16 as claimed: a constraint that does not parse gives the result
\* "Invalid version specifier", stored in PYPI_CACHE, whatever the registry
\* answers.
C16_InvalidWhateverAnswer ==
  InvalidQuery =>
    /\ last.pypi.compatible = "unknown"
    /\ last.pypi.reason = InvalidReason
    /\ LastKey \in DOMAIN PYPI_CACHE

\* C16 amended: a constraint that does not parse gives the result "Invalid
\* version specifier", with no version inspected and stored in PYPI_CACHE,
\* when the registry answers 200 with a usable document.  On a 404 the
\* result is the not-found result, stored; on another status, a network
\* failure or an unusable body it is the transient error, not stored.
C16_InvalidAfterFetch ==
  InvalidQuery =>
    /\ last.pypi.compatible = "unknown"
    /\ last.pypi.checked_version = "None"
    /\ IF TransientError
       THEN /\ LastKey \notin DOMAIN PYPI_CACHE
            /\ last.pypi.reason # InvalidReason
       ELSE /\ LastKey \in DOMAIN PYPI_CACHE
            /\ PYPI_CACHE[LastKey] = last.pypi
            /\ last.pypi.reason = (IF LastPublished THEN InvalidReason ELSE NotFoundReason)

\* The constraint >=not-a-version for a published package.
C16_Witness ==
  /\ InvalidQuery /\ LastPublished /\ last.transport = "ok"
  /\ last.spec = <<">=", "not-a-version">>
  /\ last.pypi.reason = InvalidReason
  /\ PYPI_CACHE[LastKey] = last.pypi

\* The last call got the document of the package for a query without a
\* constraint.
LatestQuery ==
  /\ last.op \in {"python", "pypi"}
  /\ last.spec = <<>>
  /\ last.reqPypi = 1 /\ last.transport = "ok"
  /\ LastPublished

\* C17: without a constraint the version inspected is info.version, whatever
\* the keys of releases are: with info.version in releases the result is
\* that of its release files; without it in releases, or with no
\* info.version, the result is "unknown" and not stored.
C17_LatestIsInfoVersion ==
  LatestQuery =>
    LET latest == LastDoc.info.version IN
    IF latest = ""
    THEN /\ last.pypi.checked_version = "None"
         /\ last.pypi.compatible = "unknown"
         /\ LastKey \notin DOMAIN PYPI_CACHE
    ELSE /\ last.pypi.checked_version = latest
         /\ IF latest \in Range(LastDoc.versions)
            THEN /\ last.pypi = InspectVersion(LastDoc, latest)
                 /\ HasTokens(last.pypi.reason, <<latest>>)
            ELSE /\ last.pypi.compatible = "unknown"
                 /\ LastKey \notin DOMAIN PYPI_CACHE

\* info.version is 1.0.0 while 1.2.0 and 2.0.0 are published: the source
\* distribution of 1.0.0 decides, not the wheels of the later versions.
C17_Witness ==
  /\ LatestQuery
  /\ LastDoc.versions = <<"1.0.0", "1.2.0", "2.0.0">>
  /\ LastDoc.info.version = "1.0.0"
  /\ last.pypi.checked_version = "1.0.0"
  /\ last.pypi.compatible = "partial"

\* The environments of the entry that report test-passed = false.
FailingEnvs ==
  {i \in PresentEnvs : LastEntry.envs[TEST_ENVS[i]].passed = "False"}

\* C18: when the registry verdict is True and every environment of the
\* entry reports a failure, the final verdict is True and its reason names
\* an environment that failed.
C18_FailureNamedUnderTrue ==
  (FeedFailed /\ FailingEnvs = PresentEnvs /\ last.pypi.compatible = "True") =>
    /\ ~last.raised
    /\ last.verdict.compatible = "True"
    /\ \E i \in PresentEnvs : HasTokens(last.verdict.reason, <<TEST_ENVS[i]>>)

\* C19: when the registry verdict is False, no environment of the entry
\* passed and one reports a failure, the final verdict is False and its
\* reason is the registry reason with the failed environment appended.
C19_FailureAppendedUnderFalse ==
  (FeedFailed /\ FailingEnvs # {} /\ last.pypi.compatible = "False") =>
    /\ ~last.raised
    /\ last.verdict.compatible = "False"
    /\ StartsWith(last.verdict.reason, RStripDot(last.pypi.reason))
    /\ HasTokens(last.verdict.reason, <<First(PresentEnvs)>>)

\* The release files of the inspected version that are not yanked, and the
\* verdict they give on their own.
UsableFiles == SelectSeq(InspectedFiles, LAMBDA f : ~f.yanked)

UsableVerdict == Decide(UsableFiles, LastDoc.info, last.pypi.checked_version).compatible

NothingUsable ==
  ~(Evidence("arm") \/ Evidence("universal") \/ Evidence("sdist") \/ Evidence("other_arch"))

\* C20: the registry verdict of a version with yanked files is the verdict
\* of its files that are not yanked, True and "partial" among them; only
\* when nothing usable is left does the yank change it, from False to
\* "unknown".  A yanked version carries the warning.
C20_YankKeepsVerdict ==
  Inspected =>
    /\ last.pypi.compatible =
         (IF VersionYanked /\ NothingUsable THEN "unknown" ELSE UsableVerdict)
    /\ (VersionYanked /\ NothingUsable) => UsableVerdict = "False"
    /\ VersionYanked <=> last.pypi.warning # <<>>

\* A source distribution of a package with C classifiers beside a yanked
\* file: "partial", with the warning.
C20_Witness ==
  /\ Inspected /\ VersionYanked
  /\ Evidence("sdist") /\ NativeIndicators
  /\ ~Evidence("arm") /\ ~Evidence("universal")
  /\ last.pypi.compatible = "partial"
  /\ last.pypi.warning # <<>>

CompilationNote == " Source compilation might be required on ARM64"

ManualCheckNote == " Manual check recommended"

\* C21: a returned "partial" verdict has the compilation note at the end of
\* its reason, followed only by the yank warning when there is one; a
\* returned "unknown" verdict has the manual-check recommendation; a True
\* or False verdict has neither.
C21_FinalizationNotes ==
  Returned =>
    LET reason == last.verdict.reason IN
    /\ last.verdict.compatible = "partial" =>
         /\ ManualCheckNote \notin Range(reason)
         /\ IF last.pypi.warning = <<>>
            THEN EndsWith(reason, <<".", CompilationNote, ".">>)
            ELSE EndsWith(reason, <<".", CompilationNote, " (Warning: ">>
                                    \o last.pypi.warning \o <<")">>)
    /\ last.verdict.compatible = "unknown" =>
         /\ HasTokens(reason, <<")", ".", ManualCheckNote>>)
         /\ CompilationNote \notin Range(reason)
    /\ last.verdict.compatible \in {"True", "False"} =>
         /\ CompilationNote \notin Range(reason)
         /\ ManualCheckNote \notin Range(reason)

\* A registry "partial" for a yanked version, with a failure in the wheel
\* tester appended before the note.
C21_Witness ==
  /\ Returned /\ FeedHasEntry /\ FailingEnvs # {}
  /\ last.verdict.compatible = "partial"
  /\ last.pypi.warning # <<>>
  /\ HasTokens(last.verdict.reason,
               <<" in Wheel Tester", ".", CompilationNote, " (Warning: ">>)

\* C22: when the wheel tester results have an entry under the canonical
\* name of the package, the name the registry is asked for, the check finds
\* it: with a pass in the entry the verdict is True for every spelling of
\* the name.
C22_FeedLookupCanonical ==
  (PythonCall /\ Truthy(last.feed) /\ last.feed[1].kind = "dict"
     /\ canonicalize_name(last.name) \in DOMAIN last.feed[1].items) =>
    /\ ~last.raised
    /\ last.verdict.debug_info.wheel_tester_check.status = "found"
    /\ last.verdict.compatible = "True"

\* C23: with a constraint that parses and a published version that parses
\* and satisfies it, the result is the inspection of a key of the releases
\* mapping, never a resolution or internal error.
C23_ResolvedVersionInspected ==
  (/\ last.op \in {"python", "pypi"} /\ last.transport = "ok" /\ LastPublished
   /\ last.spec # <<>> /\ ValidSpecifier(last.spec)
   /\ \E w \in ParsablePublished : Satisfies(w)) =>
    /\ last.pypi.checked_version \in Range(LastDoc.versions)
    /\ last.pypi = InspectVersion(LastDoc, last.pypi.checked_version)

NpmCall == lastNpm.op = "npm"

NpmAsked == NpmCall /\ lastNpm.requests = 1

NpmRead ==
  /\ NpmAsked
  /\ lastNpm.response[1].kind = "answer" /\ lastNpm.response[1].status_code = 200
  /\ lastNpm.response[1].error = "None"
  /\ LatestVersionInfo(lastNpm.response[1].data[1]) # <<>>

NpmInfo == LatestVersionInfo(lastNpm.response[1].data[1])[1]

UsesNodeGyp(info) ==
  \/ info.gypfile
  \/ /\ \E k \in {"install", "preinstall", "postinstall"} : k \in DOMAIN info.scripts
     /\ \E k \in DOMAIN info.scripts : "node-gyp" \in Range(info.scripts[k])

CpuExcludesArm(info) ==
  info.cpu # <<>> /\ \A a \in {"arm", "arm64", "!x64"} : a \notin Range(info.cpu)

OsExcludesLinux(info) ==
  info.os # <<>> /\ \A o \in {"!win32", "!darwin", "linux"} : o \notin Range(info.os)

DependsOnProblematic(info) == \E d \in info.dependencies : d \in PROBLEMATIC_PACKAGES

NpmVerdict(compatible, source, indicator) ==
  /\ lastNpm.result.compatible = compatible
  /\ lastNpm.result.debug_info.source = source
  /\ indicator # "None" => lastNpm.result.debug_info.details[1].indicator = indicator

\* C25: the compatible value of an npm check is True, "partial" or "unknown";
\* a name on the known-problematic list is "partial" and a name on the
\* known-pure-JS list is True, both without a registry request; any other
\* name is decided by the metadata of the latest version, by the first of
\* node-gyp use, cpu field, os field, problematic dependency, else pure JS.
C25_NpmPrecedenceAndRange ==
  NpmCall =>
    /\ lastNpm.result.compatible \in {"True", "partial", "unknown"}
    /\ ~lastNpm.cached =>
         LET lower == Lower(lastNpm.name) IN
         IF lower \in PROBLEMATIC_PACKAGES
         THEN lastNpm.requests = 0 /\ NpmVerdict("partial", "heuristic_problematic", "None")
         ELSE IF lower \in KNOWN_COMPATIBLE_JS
         THEN lastNpm.requests = 0 /\ NpmVerdict("True", "heuristic_compatible", "None")
         ELSE /\ lastNpm.requests = 1
              /\ NpmRead =>
                   IF UsesNodeGyp(NpmInfo)
                   THEN NpmVerdict("partial", "npm_registry", "gypfile or install script")
                   ELSE IF CpuExcludesArm(NpmInfo)
                   THEN NpmVerdict("partial", "npm_registry", "cpu field")
                   ELSE IF OsExcludesLinux(NpmInfo)
                   THEN NpmVerdict("partial", "npm_registry", "os field")
                   ELSE IF DependsOnProblematic(NpmInfo)
                   THEN NpmVerdict("partial", "npm_registry", "problematic dependency")
                   ELSE NpmVerdict("True", "npm_registry", "no native indicators found")
              /\ (NpmAsked /\ ~NpmRead) => lastNpm.result.compatible = "unknown"

\* Metadata with an x64-only cpu field, a win32-only os field and a
\* problematic dependency, no node-gyp: decided by the cpu field.
C25_Witness ==
  /\ NpmRead
  /\ ~UsesNodeGyp(NpmInfo)
  /\ CpuExcludesArm(NpmInfo) /\ OsExcludesLinux(NpmInfo) /\ DependsOnProblematic(NpmInfo)
  /\ NpmVerdict("partial", "npm_registry", "cpu field")

\* A registry request that ended in a status other than 200 and 404, in a
\* network exception or in a body that does not parse.
NpmTransient ==
  /\ NpmAsked
  /\ \/ lastNpm.response[1].kind = "raises"
     \/ lastNpm.response[1].status_code \notin {200, 404}
     \/ lastNpm.response[1].error # "None"

\* C26: an npm check whose registry request ended in a transient error
\* leaves no entry for its key in the cache.
C26_NpmTransientNotCached ==
  NpmTransient => NpmCacheKey(lastNpm.name, lastNpm.version) \notin DOMAIN NPM_CACHE

C28_CacheWriteOnce ==
  [][/\ \A k \in DOMAIN PYPI_CACHE :
          k \in DOMAIN PYPI_CACHE' /\ PYPI_CACHE'[k] = PYPI_CACHE[k]
     /\ (/\ pc' # pc /\ manifest[pc].op \in {"python", "pypi"}
         /\ CacheKey(manifest[pc].name, manifest[pc].spec) \in DOMAIN PYPI_CACHE) =>
          /\ last'.pypi = PYPI_CACHE[CacheKey(manifest[pc].name, manifest[pc].spec)]
          /\ last'.reqPypi = 0]_vars

\* A second check of a package whose first result was stored: the registry
\* now fails, the stored result is returned.
C28_Witness ==
  /\ PythonCall /\ pc = 3
  /\ manifest[1].op \in {"python", "pypi"}
  /\ CacheKey(manifest[1].name, manifest[1].spec) = LastKey
  /\ faults # {}
  /\ last.reqPypi = 0
  /\ LastKey \in DOMAIN PYPI_CACHE /\ last.pypi = PYPI_CACHE[LastKey]
  /\ last.pypi.checked_version # "None"

\* A wheel whose platform tags name an ARM identifier and an x86 one.
NamesBothArchitectures(f) ==
  /\ f.packagetype = "bdist_wheel" /\ f.filename.whl /\ f.filename.fields >= 3
  /\ \E tok \in f.filename.tags : tok \in {"aarch64", "arm64"}
  /\ \E tok \in f.filename.tags : tok \in {"x86_64", "win_amd64"}

\* C29: of the files of the inspected version, each lands in at most one of
\* the four lists and a yanked file in none, so the lists together are no
\* longer than the files that are not yanked and no two of them share a file
\* name; a wheel that names both an ARM and an x86 identifier is in
\* arm_wheels and not in other_arch_wheels.
C29_PartialPartition ==
  Inspected =>
    LET files == InspectedFiles
        lists == <<arm_wheels(files), universal_wheels(files), other_arch_wheels(files),
                   sdist_files(files)>>
    IN /\ Len(lists[1]) + Len(lists[2]) + Len(lists[3]) + Len(lists[4])
            <= Cardinality({i \in 1..Len(files) : ~files[i].yanked})
       /\ \A j, k \in 1..4 : j # k => Range(lists[j]) \cap Range(lists[k]) = {}
       /\ (\A i \in 1..Len(files) : files[i].yanked) => \A j \in 1..4 : lists[j] = <<>>
       /\ \A i \in 1..Len(files) :
            (~files[i].yanked /\ NamesBothArchitectures(files[i])) =>
              /\ files[i].filename \in Range(lists[1])
              /\ files[i].filename \notin Range(lists[3])

\* A wheel tagged macosx x86_64 arm64 next to a yanked wheel: the first is
\* the only entry of the four lists, and the verdict is True.
C29_Witness ==
  /\ Inspected
  /\ Len(InspectedFiles) = 2
  /\ \E i, j \in 1..2 :
       /\ ~InspectedFiles[i].yanked /\ NamesBothArchitectures(InspectedFiles[i])
       /\ InspectedFiles[j].yanked
       /\ arm_wheels(InspectedFiles) = <<InspectedFiles[i].filename>>
  /\ other_arch_wheels(InspectedFiles) = <<>>
  /\ last.pypi.compatible = "True"

\* The wheel tester results hold neither a pass nor a failure for the
\* package of the last check: no results, no entry, or an entry without any
\* of the three environments.
NoFeedEvidence ==
  \/ ~Truthy(last.feed)
  \/ /\ last.feed[1].kind = "dict"
     /\ FeedHasEntry => (EntryWellFormed /\ PresentEnvs = {})

\* C30: the compatible value of a returned record is True, False, "partial"
\* or "unknown", whatever the registry stage returned; it is "unknown" when
\* the registry's value is none of True, False and "partial" and the wheel
\* tester results hold neither a pass nor a failure for the package.
C30_VerdictRange ==
  (last.op \in {"python", "given"} /\ ~last.raised) =>
    /\ last.verdict.compatible \in {"True", "False", "partial", "unknown"}
    /\ (last.pypi.compatible \notin {"True", "False", "partial"} /\ NoFeedEvidence) =>
         last.verdict.compatible = "unknown"

\* A registry result with a value that is none of the four and an entry of
\* the package without any of the three environments: "unknown".
C30_Witness ==
  /\ last.op = "given" /\ ~last.raised
  /\ last.pypi.compatible = "maybe"
  /\ FeedHasEntry /\ EntryWellFormed /\ PresentEnvs = {}
  /\ last.verdict.compatible = "unknown"
  /\ last.verdict.debug_info.wheel_tester_check.status = "found"

====
